---- MODULE Spec2Model ----
(***************************************************************************)
(* Model of the on-chain investment flow: the TokenSale contract           *)
(* (src/unnamed/part_000, Solidity part) and the InvestmentEscrow contract *)
(* (src/unnamed/part_001).                                                 *)
(*                                                                         *)
(* Every external entry point is one action.  A call that reverts leaves   *)
(* the chain state unchanged, so the guard of an action is the conjunction *)
(* of the requires (and of the implicit checked-arithmetic and balance     *)
(* checks) on the path, and the primed variables are the writes of the     *)
(* successful call.                                                        *)
(*                                                                         *)
(* The backend (src/backend/02-deal-repository.ts) is modelled next to it: *)
(* AuditService (redaction of the details of an audit entry, log,          *)
(* cleanupOldLogs) and DealRepository.createDeal, one step per awaited     *)
(* call.                                                                   *)
(***************************************************************************)
EXTENDS Integers, Sequences, FiniteSets, TLC

\* ------------------------------------------------------------------------
\* Addresses
\* ------------------------------------------------------------------------
ZERO == "0x0"              \* address(0); as a currency it is the native asset
USDC == "usdc"             \* an ERC20 payment currency
Users == {"u1", "u2"}      \* investors / buyers
OWNER == "owner"           \* owner() of the Sale
FEE == "fee"               \* fee recipient configured in the service contract
SALE == "sale"             \* address(this) of the TokenSale
ESC == "esc"               \* the InvestmentEscrow instance (a valid escrow)
ADMIN == "admin"           \* an address for which factory.isAdmin holds
INVESTOR == "u1"           \* the escrow's immutable investor
SVC == "svc"               \* the service contract
SVC2 == "svc2"             \* another contract with the service interface
Currencies == {ZERO, USDC}
Holders == Users \cup {OWNER, FEE, SALE, ESC}
Callers == Users \cup {OWNER, ADMIN, ESC}

\* ------------------------------------------------------------------------
\* Fixed-point units and TGE configuration (TGEInfo given to initialize)
\* ------------------------------------------------------------------------
\* The fixed-point scale of price (1e18 in the source).  TLC integers are
\* 32 bit, so the scale is a small unit of the model; price is expressed in
\* the same unit and every formula keeps the source's multiply-then-divide
\* order and truncation.
WAD == 4
BPS == 10000               \* basis-point denominator
MAX_WHITELIST_BATCH == 100

price == 3                 \* 0.75 payment units per token
hardcap == 6
softcap == 4
minPurchase == 2
maxPurchase == 4
lockupPercent == 5000
lockupTVLValues == {0, 2}  \* info.lockupTVL: 0 (reached at once) or positive
duration == 86400          \* 1 day
lockupDuration == 172800   \* 2 days
createdAt == 0             \* block.timestamp of initialize

\* Escrow constants (seconds)
MAX_ESCROW_DURATION == 2592000
ADMIN_ACTION_DEADLINE == 1209600
escrowCreatedAt == 0
expirationTime == escrowCreatedAt + MAX_ESCROW_DURATION
adminDeadline == escrowCreatedAt + ADMIN_ACTION_DEADLINE

\* ------------------------------------------------------------------------
\* Bounds of the model
\* ------------------------------------------------------------------------
Wallet == 4                \* initial balance of each user in each currency
MaxPayment == 3            \* largest paymentAmount of an escrow purchase
MaxValue == 1              \* largest msg.value attached to a token purchase
SaleTokens == 3            \* sale tokens pre-funded to the Sale (or 0)
MaxAmount == 5             \* largest token amount asked for in purchase()
MaxWhitelistLen == 2       \* longest whitelist array that is explored
MaxReserved == 1           \* largest reserved token amount that is set

\* Fee oracle behaviours.  A rate of REVERT / a recipient of REVERTS models a
\* call that reverts.
REVERT == -1
REVERTS == "revert"
Oracle(minRate, minRcpt, tenRate, tenRcpt, platRate, platRcpt) ==
    [minRate |-> minRate, minRcpt |-> minRcpt, tenRate |-> tenRate,
     tenRcpt |-> tenRcpt, platRate |-> platRate, platRcpt |-> platRcpt]
Oracles ==
    { Oracle(5000, FEE, REVERT, REVERTS, REVERT, REVERTS),     \* 50% via minimal
      Oracle(REVERT, REVERTS, REVERT, REVERTS, 10000, FEE),    \* 100% via fallback
      Oracle(5000, REVERTS, REVERT, REVERTS, REVERT, REVERTS) }\* no recipient
\* a rate above 100%: the fee exceeds the payment
OraclesE == Oracles \cup {Oracle(20000, FEE, REVERT, REVERTS, REVERT, REVERTS)}

VARIABLES
    \* TokenSale storage
    totalPurchases, purchaseOf, lockedBalanceOf, paidAmount,
    totalPurchasesInCurrency, totalParticipants, hasParticipated,
    lockupTVLReached, lockupTVL, immediateTransfer, serviceContract, tenantId,
    reservedTokenAmount, paused, userWhitelist, isUserWhitelisted, tokenWhitelist, isTokenWhitelisted,
    \* InvestmentEscrow storage
    status, amount, tokenAmount, approvedAmount, refundedAmount, paymentToken,
    rejectionReason,
    \* environment
    now,          \* block.timestamp
    bal,          \* bal[c][a]: balance of holder a in payment currency c
    tok,          \* tok[a]: balance of holder a in the sale token
    minterRole,   \* token.hasRole(MINTER_ROLE, sale)
    oracle,       \* behaviour of the service contract's fee interface
    \* calls in progress
    entered,      \* entered[c]: the reentrancy guard of contract c is set
    executing,    \* the entry point that is waiting in an external call
    \* backend (src/backend/02-deal-repository.ts)
    entry,        \* the AuditLogEntry passed to AuditService.log
    audit_logs,   \* rows of the table audit_logs
    deal,         \* createDeal's argument: the related lists that are not empty
    pc,           \* the statement the createDeal call is at
    client,       \* the pooled client of the createDeal call
    tables        \* the tables holding a committed row of the deal

saleLedger == <<totalPurchases, purchaseOf, lockedBalanceOf, paidAmount,
                totalPurchasesInCurrency, totalParticipants, hasParticipated>>
saleConfig == <<lockupTVL, immediateTransfer, serviceContract, tenantId,
                reservedTokenAmount>>
saleAdmin == <<paused, userWhitelist, isUserWhitelisted, tokenWhitelist,
               isTokenWhitelisted>>
escrowVars == <<status, amount, tokenAmount, approvedAmount, refundedAmount,
                paymentToken, rejectionReason>>
envConfig == <<minterRole, oracle>>
reentrancy == <<entered, executing>>
chain == <<saleLedger, lockupTVLReached, saleConfig, saleAdmin, escrowVars,
           now, bal, tok, envConfig, reentrancy>>
audit == <<entry, audit_logs>>
repository == <<deal, pc, client, tables>>
backend == <<audit, repository>>

\* A JSON value: null, a string (its characters), an object (its entries in
\* insertion order) or an array (its items)
Null == [type |-> "null", chars |-> <<>>, entries |-> <<>>, items |-> <<>>]
Str(chars) == [type |-> "string", chars |-> chars, entries |-> <<>>, items |-> <<>>]
Obj(entries) == [type |-> "object", chars |-> <<>>, entries |-> entries, items |-> <<>>]
Arr(items) == [type |-> "array", chars |-> <<>>, entries |-> <<>>, items |-> items]
vars == <<chain, backend>>

\* the backend at rest: no request in progress, empty tables
InitRepository ==
    /\ deal = {}
    /\ pc = "idle"
    /\ client = [acquired |-> FALSE, transaction |-> "none", rows |-> {}, released |-> 0]
    /\ tables = {}

InitBackend ==
    /\ entry = [details |-> Null]
    /\ audit_logs = <<>>
    /\ InitRepository

\* ------------------------------------------------------------------------
\* Calls.  The definition of an entry point describes a successful call up to
\* its return, or up to the external call that is its last step.  Call(A) is
\* such a call made as a transaction of its own in which control comes back at
\* once, so the guard it set on entry is clear again at its end.
\* ------------------------------------------------------------------------
None == [on |-> "none", fn |-> "none", callee |-> "none", args |-> <<>>]

\* modifier nonReentrant of contract c
nonReentrant(c) == ~entered[c]

Call(A) ==
    /\ executing = None
    /\ A
    /\ UNCHANGED <<reentrancy, backend>>

\* ------------------------------------------------------------------------
\* Helpers: token transfers
\* ------------------------------------------------------------------------
Min(a, b) == IF a <= b THEN a ELSE b

\* b with n units of currency c moved from holder f to holder t
Transfer(b, c, f, t, n) ==
    IF f = t THEN b
    ELSE [b EXCEPT ![c] = [@ EXCEPT ![f] = @ - n, ![t] = @ + n]]

SumOver(f, S) ==
    LET RECURSIVE Sum(_)
        Sum(T) == IF T = {} THEN 0
                  ELSE LET x == CHOOSE y \in T : TRUE IN f[x] + Sum(T \ {x})
    IN Sum(S)

\* ------------------------------------------------------------------------
\* TokenSale: views
\* ------------------------------------------------------------------------
\* mutant of state: the sale period is looked at before the hardcap
state_PeriodFirst ==
    IF now < createdAt + duration THEN "Active"
    ELSE IF totalPurchases >= softcap THEN "Successful"
    ELSE "Failed"

state ==
    IF totalPurchases >= hardcap THEN "Successful"
    ELSE IF now < createdAt + duration THEN "Active"
    ELSE IF totalPurchases >= softcap THEN "Successful"
    ELSE "Failed"

unlockAvailable == lockupTVLReached /\ now >= createdAt + lockupDuration

getTVL == (totalPurchases * price) \div WAD

\* maxPurchase - purchaseOf[account]; checked arithmetic reverts on underflow,
\* which is modelled by the value -1 (no amount is <= it)
maxPurchaseOf(account) ==
    IF purchaseOf[account] > maxPurchase THEN -1
    ELSE maxPurchase - purchaseOf[account]

onlyWhitelistedUser(sender) ==
    Len(userWhitelist) = 0 \/ isUserWhitelisted[sender]

onlyWhitelistedCurrency(currency) ==
    Len(tokenWhitelist) = 0 \/ isTokenWhitelisted[currency]

onlyTenantManagerOrInitialOwner(sender) == sender = OWNER

\* IEscrowFactory(escrowFactory).isValidEscrow(msg.sender); the call through
\* serviceContract reverts when no service contract is set
isValidEscrow(sender) == serviceContract # ZERO /\ sender = ESC

\* mutant of calculatePlatformFee: a revert of the minimal interface is not
\* caught
calculatePlatformFee_Propagates(amt) ==
    IF serviceContract = ZERO THEN [feeAmount |-> 0, feeRecipient |-> ZERO]
    ELSE IF oracle.minRate = REVERT THEN [feeAmount |-> REVERT, feeRecipient |-> REVERTS]
    ELSE IF oracle.minRate > 0 /\ oracle.minRcpt \notin {REVERTS, ZERO}
    THEN [feeAmount |-> (amt * oracle.minRate) \div BPS, feeRecipient |-> oracle.minRcpt]
    ELSE [feeAmount |-> 0, feeRecipient |-> ZERO]

\* calculatePlatformFee: try the minimal interface, on revert the tenant-aware
\* one (when a tenant id is set), then the platform (zero-tenant) settings
calculatePlatformFee(amt) ==
    IF serviceContract = ZERO THEN [feeAmount |-> 0, feeRecipient |-> ZERO]
    ELSE
      LET minOK == oracle.minRate # REVERT
          rcptMin == IF oracle.minRcpt \in {REVERTS, ZERO} THEN ZERO
                     ELSE oracle.minRcpt
          tenOK == tenantId # 0 /\ oracle.tenRate # REVERT
          rateTen == IF tenOK THEN oracle.tenRate ELSE 0
          rcptTen == IF tenOK /\ oracle.tenRcpt \notin {REVERTS, ZERO}
                     THEN oracle.tenRcpt ELSE ZERO
          rateCatch == IF rateTen = 0
                       THEN (IF oracle.platRate # REVERT THEN oracle.platRate ELSE 0)
                       ELSE rateTen
          rcptCatch == IF rcptTen = ZERO
                       THEN (IF oracle.platRcpt # REVERTS THEN oracle.platRcpt ELSE ZERO)
                       ELSE rcptTen
          feeRate == IF minOK THEN oracle.minRate ELSE rateCatch
          feeRecipient == IF minOK THEN rcptMin ELSE rcptCatch
      IN IF feeRate > 0 /\ feeRecipient # ZERO
         THEN [feeAmount |-> (amt * feeRate) \div BPS, feeRecipient |-> feeRecipient]
         ELSE [feeAmount |-> 0, feeRecipient |-> ZERO]

\* ------------------------------------------------------------------------
\* TokenSale: token distribution shared by purchase and purchaseWithEscrow
\* ------------------------------------------------------------------------
unlockedAmount(t) ==
    IF lockupTVLReached THEN t ELSE (t * (BPS - lockupPercent)) \div BPS

lockedAmount(t) == t - unlockedAmount(t)

\* the part of the unlocked amount that has to be minted
mintAmount(t) == unlockedAmount(t) - Min(unlockedAmount(t), tok[SALE])

\* the mint reverts unless the Sale holds MINTER_ROLE
CanDistribute(t) == mintAmount(t) > 0 => minterRole

\* mutant of Distribute: the whole unlocked part is minted and the Sale's own
\* balance is left alone
Distribute_MintsAll(buyer, t) ==
    [tok EXCEPT ![buyer] = @ + unlockedAmount(t)]

\* sale-token balances after delivering the unlocked part of t to buyer
Distribute(buyer, t) ==
    LET transferAmount == Min(unlockedAmount(t), tok[SALE])
    IN [tok EXCEPT ![SALE] = @ - transferAmount,
                   ![buyer] = @ + unlockedAmount(t)]

\* ------------------------------------------------------------------------
\* TokenSale.purchase(currency, amount), payable, called by sender with
\* msg.value = value
\* ------------------------------------------------------------------------
basePaymentAmount(amt) == (amt * price) \div WAD

\* mutant of purchaseLimits: the maximum is applied to this purchase alone
purchaseLimits_PerCall(sender, amt) ==
    /\ amt >= minPurchase
    /\ amt <= maxPurchase
    /\ totalPurchases + amt <= hardcap

\* the three limit requires of purchase()
purchaseLimits(sender, amt) ==
    /\ amt >= minPurchase
    /\ amt <= maxPurchaseOf(sender)
    /\ totalPurchases + amt <= hardcap

\* the payment requires of purchase(): the native branch demands the exact
\* msg.value; the token branch checks the allowance (users are modelled with a
\* standing unlimited approval to the Sale, so safeTransferFrom fails only on
\* an insufficient balance) and never looks at msg.value
purchasePayment(sender, currency, amt, value) ==
    LET base == basePaymentAmount(amt)
        fee == calculatePlatformFee(base).feeAmount
    IN /\ bal[ZERO][sender] >= value
       /\ IF currency = ZERO
          THEN value = base + fee
          ELSE bal[currency][sender] >= base + fee

CanPurchase(sender, currency, amt, value) ==
    /\ nonReentrant(SALE)
    /\ ~paused
    /\ onlyWhitelistedUser(sender)
    /\ onlyWhitelistedCurrency(currency)
    /\ state = "Active"
    /\ purchasePayment(sender, currency, amt, value)
    /\ purchaseLimits(sender, amt)
    /\ CanDistribute(amt)

\* balances after the value transfers of purchase()
purchaseBal(sender, currency, amt, value) ==
    LET base == basePaymentAmount(amt)
        f == calculatePlatformFee(base)
        b0 == Transfer(bal, ZERO, sender, SALE, value)     \* msg.value
    IN IF currency = ZERO
       THEN LET b1 == IF f.feeAmount > 0 /\ f.feeRecipient # ZERO
                      THEN Transfer(b0, ZERO, SALE, f.feeRecipient, f.feeAmount)
                      ELSE b0
            IN IF immediateTransfer THEN Transfer(b1, ZERO, SALE, OWNER, base)
               ELSE b1
       ELSE LET b1 == IF f.feeAmount > 0 /\ f.feeRecipient # ZERO
                      THEN Transfer(b0, currency, sender, f.feeRecipient, f.feeAmount)
                      ELSE b0
            IN IF immediateTransfer THEN Transfer(b1, currency, sender, OWNER, base)
               ELSE Transfer(b1, currency, sender, SALE, base)

\* the storage writes of purchase() in the Sale and in the sale token
purchaseLedger(sender, currency, amt) ==
    /\ paidAmount' = IF immediateTransfer THEN paidAmount
                     ELSE [paidAmount EXCEPT ![sender][currency] =
                                                @ + basePaymentAmount(amt)]
    /\ totalPurchasesInCurrency' =
           [totalPurchasesInCurrency EXCEPT ![currency] = @ + basePaymentAmount(amt)]
    /\ totalPurchases' = totalPurchases + amt
    /\ purchaseOf' = [purchaseOf EXCEPT ![sender] = @ + amt]
    /\ hasParticipated' = [hasParticipated EXCEPT ![sender] = TRUE]
    /\ totalParticipants' = IF hasParticipated[sender] THEN totalParticipants
                            ELSE totalParticipants + 1
    /\ tok' = Distribute(sender, amt)
    /\ lockedBalanceOf' = [lockedBalanceOf EXCEPT ![sender] = @ + lockedAmount(amt)]

purchase(sender, currency, amt, value) ==
    /\ CanPurchase(sender, currency, amt, value)
    /\ bal' = purchaseBal(sender, currency, amt, value)
    /\ purchaseLedger(sender, currency, amt)
    /\ UNCHANGED <<lockupTVLReached, saleConfig, saleAdmin, escrowVars, now, envConfig>>

\* ------------------------------------------------------------------------
\* TokenSale.purchaseWithEscrow(investor, paymentAmount, paymentToken),
\* payable, called by sender with msg.value = value
\* ------------------------------------------------------------------------
netPayment(paymentAmount) ==
    paymentAmount - calculatePlatformFee(paymentAmount).feeAmount

\* mutant of escrowTokenAmount: tokens are computed on the gross payment
escrowTokenAmount_Gross(paymentAmount) == (paymentAmount * WAD) \div price

escrowTokenAmount(paymentAmount) == (netPayment(paymentAmount) * WAD) \div price

\* the limit requires of purchaseWithEscrow()
escrowLimits(investor, t) ==
    /\ purchaseOf[investor] + t >= minPurchase
    /\ purchaseOf[investor] + t <= maxPurchase
    /\ totalPurchases + t <= hardcap

\* paymentAmount - feeAmount must not underflow and must leave a positive net
\* payment; msg.value must match; the ERC20 pull needs the escrow's balance
\* (the escrow approves exactly paymentAmount before the call)
escrowPayment(b, sender, paymentAmount, pToken, value) ==
    /\ netPayment(paymentAmount) > 0
    /\ b[ZERO][sender] >= value
    /\ IF pToken = ZERO THEN value = paymentAmount
       ELSE value = 0 /\ b[pToken][sender] >= paymentAmount

CanPurchaseWithEscrow(b, sender, investor, paymentAmount, pToken, value) ==
    /\ nonReentrant(SALE)
    /\ ~paused
    /\ isValidEscrow(sender)
    /\ onlyWhitelistedCurrency(pToken)
    /\ state = "Active"
    /\ escrowPayment(b, sender, paymentAmount, pToken, value)
    /\ escrowLimits(investor, escrowTokenAmount(paymentAmount))
    /\ CanDistribute(escrowTokenAmount(paymentAmount))

\* balances after the value transfers of purchaseWithEscrow(), from balances b
escrowPurchaseBal(b, sender, paymentAmount, pToken) ==
    LET f == calculatePlatformFee(paymentAmount)
        b0 == Transfer(b, pToken, sender, SALE, paymentAmount)
        b1 == IF f.feeAmount > 0 /\ f.feeRecipient # ZERO
              THEN Transfer(b0, pToken, SALE, f.feeRecipient, f.feeAmount)
              ELSE b0
    IN IF immediateTransfer /\ netPayment(paymentAmount) > 0
       THEN Transfer(b1, pToken, SALE, OWNER, netPayment(paymentAmount))
       ELSE b1

\* the storage writes of purchaseWithEscrow() in the Sale and in the sale token
escrowPurchaseLedger(investor, paymentAmount, pToken) ==
    LET t == escrowTokenAmount(paymentAmount)
    IN /\ purchaseOf' = [purchaseOf EXCEPT ![investor] = @ + t]
       /\ totalPurchases' = totalPurchases + t
       /\ totalPurchasesInCurrency' =
              [totalPurchasesInCurrency EXCEPT ![pToken] = @ + netPayment(paymentAmount)]
       /\ hasParticipated' = [hasParticipated EXCEPT ![investor] = TRUE]
       /\ totalParticipants' = IF hasParticipated[investor] THEN totalParticipants
                               ELSE totalParticipants + 1
       /\ paidAmount' = IF immediateTransfer THEN paidAmount
                        ELSE [paidAmount EXCEPT ![investor][pToken] =
                                                   @ + netPayment(paymentAmount)]
       /\ tok' = Distribute(investor, t)
       /\ lockedBalanceOf' = [lockedBalanceOf EXCEPT ![investor] = @ + lockedAmount(t)]

\* ------------------------------------------------------------------------
\* TokenSale.unlock()
\* ------------------------------------------------------------------------
\* mutant of CanUnlock: the unlock condition is not required
CanUnlock_NoCondition(sender) ==
    /\ lockedBalanceOf[sender] > 0
    /\ tok[SALE] >= lockedBalanceOf[sender]

\* safeTransfer of the sale token reverts when the Sale holds less than amount
CanUnlock(sender) ==
    /\ nonReentrant(SALE)
    /\ unlockAvailable
    /\ lockedBalanceOf[sender] > 0
    /\ tok[SALE] >= lockedBalanceOf[sender]

\* mutant of unlock: the locked balance is not cleared
unlock_KeepsBalance(sender) ==
    /\ CanUnlock(sender)
    /\ tok' = [tok EXCEPT ![SALE] = @ - lockedBalanceOf[sender],
                          ![sender] = @ + lockedBalanceOf[sender]]
    /\ UNCHANGED <<saleLedger, lockupTVLReached, saleConfig,
                   saleAdmin, escrowVars, now, bal, envConfig>>

unlock(sender) ==
    /\ CanUnlock(sender)
    /\ lockedBalanceOf' = [lockedBalanceOf EXCEPT ![sender] = 0]
    /\ tok' = [tok EXCEPT ![SALE] = @ - lockedBalanceOf[sender],
                          ![sender] = @ + lockedBalanceOf[sender]]
    /\ UNCHANGED <<totalPurchases, purchaseOf, paidAmount, totalPurchasesInCurrency,
                   totalParticipants, hasParticipated, lockupTVLReached, saleConfig,
                   saleAdmin, escrowVars, now, bal, envConfig>>

\* ------------------------------------------------------------------------
\* TokenSale.claimBack(currency) and the legacy claimBack()
\* ------------------------------------------------------------------------
CanClaimBack(sender, currency) ==
    /\ nonReentrant(SALE)
    /\ state = "Failed"
    /\ ~immediateTransfer
    /\ paidAmount[sender][currency] > 0
    /\ bal[currency][SALE] >= paidAmount[sender][currency]

\* mutant of claimBack: the refund clears the caller's record in every currency
claimBack_AllCurrencies(sender, currency) ==
    /\ state = "Failed"
    /\ ~immediateTransfer
    /\ paidAmount[sender][currency] > 0
    /\ bal[currency][SALE] >= paidAmount[sender][currency]
    /\ paidAmount' = [paidAmount EXCEPT ![sender] = [c \in Currencies |-> 0]]
    /\ purchaseOf' = [purchaseOf EXCEPT ![sender] = 0]
    /\ lockedBalanceOf' = [lockedBalanceOf EXCEPT ![sender] = 0]
    /\ bal' = Transfer(bal, currency, SALE, sender, paidAmount[sender][currency])
    /\ UNCHANGED <<totalPurchases, totalPurchasesInCurrency, totalParticipants,
                   hasParticipated, lockupTVLReached, saleConfig, saleAdmin,
                   escrowVars, now, tok, envConfig>>

\* mutant of claimBack: the refunded purchase is taken out of totalPurchases
claimBack_LowersTotal(sender, currency) ==
    /\ CanClaimBack(sender, currency)
    /\ paidAmount' = [paidAmount EXCEPT ![sender][currency] = 0]
    /\ purchaseOf' = [purchaseOf EXCEPT ![sender] = 0]
    /\ lockedBalanceOf' = [lockedBalanceOf EXCEPT ![sender] = 0]
    /\ totalPurchases' = totalPurchases - purchaseOf[sender]
    /\ bal' = Transfer(bal, currency, SALE, sender, paidAmount[sender][currency])
    /\ UNCHANGED <<totalPurchasesInCurrency, totalParticipants,
                   hasParticipated, lockupTVLReached, saleConfig, saleAdmin,
                   escrowVars, now, tok, envConfig>>

claimBack(sender, currency) ==
    /\ CanClaimBack(sender, currency)
    /\ paidAmount' = [paidAmount EXCEPT ![sender][currency] = 0]
    /\ purchaseOf' = [purchaseOf EXCEPT ![sender] = 0]
    /\ lockedBalanceOf' = [lockedBalanceOf EXCEPT ![sender] = 0]
    /\ bal' = Transfer(bal, currency, SALE, sender, paidAmount[sender][currency])
    /\ UNCHANGED <<totalPurchases, totalPurchasesInCurrency, totalParticipants,
                   hasParticipated, lockupTVLReached, saleConfig, saleAdmin,
                   escrowVars, now, tok, envConfig>>

claimBackLegacy(sender) ==
    /\ CanClaimBack(sender, ZERO)
    /\ paidAmount' = [paidAmount EXCEPT ![sender][ZERO] = 0]
    /\ purchaseOf' = [purchaseOf EXCEPT ![sender] = 0]
    /\ lockedBalanceOf' = [lockedBalanceOf EXCEPT ![sender] = 0]
    /\ bal' = Transfer(bal, ZERO, SALE, sender, paidAmount[sender][ZERO])
    /\ UNCHANGED <<totalPurchases, totalPurchasesInCurrency, totalParticipants,
                   hasParticipated, lockupTVLReached, saleConfig, saleAdmin,
                   escrowVars, now, tok, envConfig>>

\* ------------------------------------------------------------------------
\* TokenSale: administrative operations
\* ------------------------------------------------------------------------
setLockupTVLReachedForced(sender, force) ==
    /\ onlyTenantManagerOrInitialOwner(sender)
    /\ force \/ getTVL >= lockupTVL
    /\ lockupTVLReached' = TRUE
    /\ UNCHANGED <<saleLedger, saleConfig, saleAdmin, escrowVars, now, bal, tok,
                   envConfig>>

setLockupTVLReached(sender) ==
    /\ onlyTenantManagerOrInitialOwner(sender)
    /\ getTVL >= lockupTVL
    /\ lockupTVLReached' = TRUE
    /\ UNCHANGED <<saleLedger, saleConfig, saleAdmin, escrowVars, now, bal, tok,
                   envConfig>>

transferFunds(sender, currency) ==
    /\ onlyTenantManagerOrInitialOwner(sender)
    /\ state = "Successful"
    /\ bal' = Transfer(bal, currency, SALE, OWNER, bal[currency][SALE])
    /\ UNCHANGED <<saleLedger, lockupTVLReached, saleConfig, saleAdmin, escrowVars,
                   now, tok, envConfig>>

\* hasTenantManagerRole(), evaluated for msg.sender = sender
hasTenantManagerRole(sender) ==
    IF serviceContract = ZERO THEN FALSE ELSE sender = OWNER

\* setServiceContract(serviceContract_).  The fee interface answers as the new
\* contract does: behaviour is that contract's behaviour.
setServiceContract(sender, serviceContract_, behaviour) ==
    /\ serviceContract = ZERO \/ hasTenantManagerRole(sender)
    /\ serviceContract_ # ZERO
    /\ serviceContract' = serviceContract_
    /\ oracle' = behaviour
    /\ UNCHANGED <<saleLedger, lockupTVLReached, lockupTVL, immediateTransfer,
                   tenantId, reservedTokenAmount, saleAdmin, escrowVars, now, bal,
                   tok, minterRole>>

setTenantId(sender, id) ==
    /\ onlyTenantManagerOrInitialOwner(sender)
    /\ tenantId' = id
    /\ UNCHANGED <<saleLedger, lockupTVLReached, lockupTVL, immediateTransfer,
                   serviceContract, reservedTokenAmount, saleAdmin, escrowVars,
                   now, bal, tok, envConfig>>

\* setReservedTokenAmount(amount), onlyOwner
setReservedTokenAmount(sender, amt) ==
    /\ sender = OWNER
    /\ reservedTokenAmount' = amt
    /\ UNCHANGED <<saleLedger, lockupTVLReached, lockupTVL, immediateTransfer,
                   serviceContract, tenantId, saleAdmin, escrowVars, now, bal,
                   tok, envConfig>>

\* mintReservedTokens(): the mint is tried; when it reverts (no MINTER_ROLE)
\* the call returns false and changes nothing.  The owner's token balance is
\* explored up to MaxReserved.
mintReservedTokens(sender) ==
    /\ onlyTenantManagerOrInitialOwner(sender)
    /\ reservedTokenAmount > 0
    /\ tok[OWNER] + reservedTokenAmount <= MaxReserved
    /\ IF minterRole
       THEN /\ tok' = [tok EXCEPT ![OWNER] = @ + reservedTokenAmount]
            /\ reservedTokenAmount' = 0
       ELSE UNCHANGED <<tok, reservedTokenAmount>>
    /\ UNCHANGED <<saleLedger, lockupTVLReached, lockupTVL, immediateTransfer,
                   serviceContract, tenantId, saleAdmin, escrowVars, now, bal,
                   envConfig>>

\* the loop of addToUserWhitelist / addToTokenWhitelist: an entry whose flag is
\* clear is pushed and flagged
addAll(list, flag, batch) ==
    LET RECURSIVE Loop(_, _, _)
        Loop(l, f, b) ==
            IF b = <<>> THEN [list |-> l, flag |-> f]
            ELSE IF f[Head(b)] THEN Loop(l, f, Tail(b))
            ELSE Loop(Append(l, Head(b)), [f EXCEPT ![Head(b)] = TRUE], Tail(b))
    IN Loop(list, flag, batch)

\* the loop of removeFromUserWhitelist / removeFromTokenWhitelist: the flag of
\* every entry is cleared, the array is left alone
removeAll(flag, batch) ==
    [x \in DOMAIN flag |->
        IF \E i \in 1..Len(batch) : batch[i] = x THEN FALSE ELSE flag[x]]

\* the array is explored up to MaxWhitelistLen entries
addToUserWhitelist(sender, users) ==
    /\ onlyTenantManagerOrInitialOwner(sender)
    /\ Len(users) <= MAX_WHITELIST_BATCH
    /\ Len(addAll(userWhitelist, isUserWhitelisted, users).list) <= MaxWhitelistLen
    /\ userWhitelist' = addAll(userWhitelist, isUserWhitelisted, users).list
    /\ isUserWhitelisted' = addAll(userWhitelist, isUserWhitelisted, users).flag
    /\ UNCHANGED <<saleLedger, lockupTVLReached, saleConfig, paused, tokenWhitelist,
                   isTokenWhitelisted, escrowVars, now, bal, tok, envConfig>>

\* mutant of removeFromUserWhitelist: the removed users are also taken out of
\* the array
removeFromUserWhitelist_Compacts(sender, users) ==
    /\ onlyTenantManagerOrInitialOwner(sender)
    /\ isUserWhitelisted' = removeAll(isUserWhitelisted, users)
    /\ userWhitelist' = SelectSeq(userWhitelist,
                           LAMBDA x : ~\E i \in 1..Len(users) : users[i] = x)
    /\ UNCHANGED <<saleLedger, lockupTVLReached, saleConfig, paused, tokenWhitelist,
                   isTokenWhitelisted, escrowVars, now, bal, tok, envConfig>>

removeFromUserWhitelist(sender, users) ==
    /\ onlyTenantManagerOrInitialOwner(sender)
    /\ isUserWhitelisted' = removeAll(isUserWhitelisted, users)
    /\ UNCHANGED <<saleLedger, lockupTVLReached, saleConfig, paused, userWhitelist,
                   tokenWhitelist, isTokenWhitelisted, escrowVars, now, bal, tok,
                   envConfig>>

addToTokenWhitelist(sender, tokens) ==
    /\ onlyTenantManagerOrInitialOwner(sender)
    /\ Len(tokens) <= MAX_WHITELIST_BATCH
    /\ Len(addAll(tokenWhitelist, isTokenWhitelisted, tokens).list) <= MaxWhitelistLen
    /\ tokenWhitelist' = addAll(tokenWhitelist, isTokenWhitelisted, tokens).list
    /\ isTokenWhitelisted' = addAll(tokenWhitelist, isTokenWhitelisted, tokens).flag
    /\ UNCHANGED <<saleLedger, lockupTVLReached, saleConfig, paused, userWhitelist,
                   isUserWhitelisted, escrowVars, now, bal, tok, envConfig>>

removeFromTokenWhitelist(sender, tokens) ==
    /\ onlyTenantManagerOrInitialOwner(sender)
    /\ isTokenWhitelisted' = removeAll(isTokenWhitelisted, tokens)
    /\ UNCHANGED <<saleLedger, lockupTVLReached, saleConfig, paused, userWhitelist,
                   isUserWhitelisted, tokenWhitelist, escrowVars, now, bal, tok,
                   envConfig>>

\* pause() / unpause(): whenNotPaused / whenPaused of Pausable
pause(sender) ==
    /\ onlyTenantManagerOrInitialOwner(sender)
    /\ ~paused
    /\ paused' = TRUE
    /\ UNCHANGED <<saleLedger, lockupTVLReached, saleConfig, userWhitelist,
                   isUserWhitelisted, tokenWhitelist, isTokenWhitelisted,
                   escrowVars, now, bal, tok, envConfig>>

unpause(sender) ==
    /\ onlyTenantManagerOrInitialOwner(sender)
    /\ paused
    /\ paused' = FALSE
    /\ UNCHANGED <<saleLedger, lockupTVLReached, saleConfig, userWhitelist,
                   isUserWhitelisted, tokenWhitelist, isTokenWhitelisted,
                   escrowVars, now, bal, tok, envConfig>>

\* ------------------------------------------------------------------------
\* Time: block.timestamp only grows.  The contracts compare it with four
\* thresholds only, so the clock steps from threshold to threshold.
\* ------------------------------------------------------------------------
SaleTimes == {createdAt + duration, createdAt + lockupDuration}
EscrowTimes == {adminDeadline, expirationTime}

Tick(times) ==
    /\ \E t \in times : t > now /\ now' = t
    /\ UNCHANGED <<saleLedger, lockupTVLReached, saleConfig, saleAdmin, escrowVars,
                   bal, tok, envConfig>>

\* ------------------------------------------------------------------------
\* Initial states: the state after initialize() (and, for the escrow, after
\* its constructor), for every funding mode, fee-oracle behaviour, minting
\* right and pre-funding of the Sale
\* ------------------------------------------------------------------------
InitSale(oracles, services) ==
    /\ totalPurchases = 0
    /\ purchaseOf = [u \in Users |-> 0]
    /\ lockedBalanceOf = [u \in Users |-> 0]
    /\ paidAmount = [u \in Users |-> [c \in Currencies |-> 0]]
    /\ totalPurchasesInCurrency = [c \in Currencies |-> 0]
    /\ totalParticipants = 0
    /\ hasParticipated = [u \in Users |-> FALSE]
    /\ lockupTVL \in lockupTVLValues
    /\ lockupTVLReached = (lockupTVL = 0)
    /\ immediateTransfer \in BOOLEAN
    /\ serviceContract \in services
    /\ tenantId = 0
    /\ reservedTokenAmount = 0          \* info.reservedTokenPercent = 0
    /\ paused = FALSE
    /\ userWhitelist = <<>>
    /\ isUserWhitelisted = [u \in Users |-> FALSE]
    /\ tokenWhitelist = <<>>
    /\ isTokenWhitelisted = [c \in Currencies |-> FALSE]
    /\ now = createdAt
    /\ minterRole \in BOOLEAN
    /\ oracle \in oracles
    /\ entered = [c \in {SALE, ESC} |-> FALSE]
    /\ executing = None
    /\ \E n \in {0, SaleTokens} :
          tok = [a \in Users \cup {SALE, OWNER} |-> IF a = SALE THEN n ELSE 0]

InitEscrow ==
    /\ status = "Active"
    /\ amount = 0
    /\ tokenAmount = 0
    /\ approvedAmount = 0
    /\ refundedAmount = 0
    /\ rejectionReason = ""

\* The Sale on its own.  Each purchaseWithEscrow call comes from the escrow of
\* the investor, holding the investor's deposit of paymentAmount (see
\* escrowApproval); the escrow's own storage is not part of this
\* specification.
Init ==
    /\ InitSale(Oracles, {SVC})
    /\ InitEscrow
    /\ InitBackend
    /\ paymentToken = ZERO
    /\ bal = [c \in Currencies |-> [a \in Holders |->
                 IF a \in Users THEN Wallet ELSE 0]]

\* An escrow funded by investor with paymentAmount of pToken whose approval
\* calls purchaseWithEscrow (with attached value for the native asset)
escrowApproval(investor, paymentAmount, pToken) ==
    LET funded == Transfer(bal, pToken, investor, ESC, paymentAmount)
        value == IF pToken = ZERO THEN paymentAmount ELSE 0
    IN /\ bal[pToken][investor] >= paymentAmount
       /\ CanPurchaseWithEscrow(funded, ESC, investor, paymentAmount, pToken, value)
       /\ bal' = escrowPurchaseBal(funded, ESC, paymentAmount, pToken)
       /\ escrowPurchaseLedger(investor, paymentAmount, pToken)
       /\ UNCHANGED <<lockupTVLReached, saleConfig, saleAdmin, escrowVars, now,
                      envConfig>>

Next ==
    \/ \E u \in Users, c \in Currencies, t \in 1..MaxAmount, v \in 0..Wallet :
          /\ c # ZERO => v <= MaxValue
          /\ Call(purchase(u, c, t, v))
    \/ \E u \in Users, p \in 1..MaxPayment, c \in Currencies : Call(escrowApproval(u, p, c))
    \/ \E u \in Users : Call(unlock(u))
    \/ \E u \in Users, c \in Currencies : Call(claimBack(u, c))
    \/ \E u \in Users : Call(claimBackLegacy(u))
    \/ \E s \in Callers, f \in BOOLEAN : Call(setLockupTVLReachedForced(s, f))
    \/ \E s \in Callers : Call(setLockupTVLReached(s))
    \/ \E s \in Callers, c \in Currencies : Call(transferFunds(s, c))
    \/ Call(Tick(SaleTimes))

Spec == Init /\ [][Next]_vars

\* ------------------------------------------------------------------------
\* The Sale with its administrative operations.  Every operation is tried by
\* every caller; the sale starts with or without a service contract.
\* ------------------------------------------------------------------------
\* behaviour of the fee interface of the service contracts: only the
\* tenant-aware interface answers
OraclesA == { Oracle(REVERT, REVERTS, 10000, FEE, REVERT, REVERTS) }

\* a vault-mode sale with a lockup threshold
InitChain(services) ==
    /\ InitSale(OraclesA, services)
    /\ InitEscrow
    /\ paymentToken = ZERO
    /\ ~immediateTransfer
    /\ lockupTVL > 0
    /\ tok[SALE] = SaleTokens
    /\ bal = [c \in Currencies |-> [a \in Holders |->
                 IF a \in Users THEN Wallet ELSE 0]]

InitAdmin(services) == InitChain(services) /\ InitBackend

InitA == InitAdmin({ZERO, SVC})

NextA ==
    \/ \E u \in Users, v \in 0..Wallet : Call(purchase(u, ZERO, minPurchase, v))
    \/ \E s \in Callers : Call(addToUserWhitelist(s, <<"u1">>))
    \/ \E s \in Callers : Call(removeFromUserWhitelist(s, <<"u1">>))
    \/ \E s \in Callers : Call(addToTokenWhitelist(s, <<ZERO>>))
    \/ \E s \in Callers : Call(removeFromTokenWhitelist(s, <<ZERO>>))
    \/ \E s \in Callers : Call(pause(s))
    \/ \E s \in Callers : Call(unpause(s))
    \/ \E s \in Callers, f \in BOOLEAN : Call(setLockupTVLReachedForced(s, f))
    \/ \E s \in Callers : Call(setLockupTVLReached(s))
    \/ \E s \in Callers, sc \in {ZERO, SVC, SVC2}, o \in OraclesA :
          Call(setServiceContract(s, sc, o))
    \/ \E s \in Callers, id \in {0, 1} : Call(setTenantId(s, id))
    \/ \E s \in Callers, n \in 0..MaxReserved : Call(setReservedTokenAmount(s, n))
    \/ \E s \in Callers : Call(mintReservedTokens(s))
    \/ \E s \in Callers, c \in Currencies : Call(transferFunds(s, c))

SpecA == InitA /\ [][NextA]_vars

\* ------------------------------------------------------------------------
\* The Sale with its whitelists: purchases by every user in every currency
\* while the owner edits the whitelists and pauses the sale
\* ------------------------------------------------------------------------
\* calldata arrays of the whitelist operations: short ones, one exactly as
\* long as the batch limit and one longer
UserBatches ==
    { <<"u1">>, <<"u2">>, <<"u1", "u2">>,
      [i \in 1..MAX_WHITELIST_BATCH |-> "u2"],
      [i \in 1..(MAX_WHITELIST_BATCH + 1) |-> "u1"] }
TokenBatches ==
    { <<USDC>>, <<ZERO, USDC>>,
      [i \in 1..(MAX_WHITELIST_BATCH + 1) |-> USDC] }

InitW == InitAdmin({SVC})

NextW ==
    \/ \E u \in Users, c \in Currencies, v \in 0..Wallet :
          /\ c # ZERO => v = 0
          /\ Call(purchase(u, c, minPurchase, v))
    \/ \E s \in Callers, b \in UserBatches : Call(addToUserWhitelist(s, b))
    \/ \E s \in Callers, b \in UserBatches : Call(removeFromUserWhitelist(s, b))
    \/ \E s \in Callers, b \in TokenBatches : Call(addToTokenWhitelist(s, b))
    \/ \E s \in Callers, b \in TokenBatches : Call(removeFromTokenWhitelist(s, b))
    \/ \E s \in Callers : Call(pause(s))
    \/ \E s \in Callers : Call(unpause(s))

SpecW == InitW /\ [][NextW]_vars

\* ------------------------------------------------------------------------
\* InvestmentEscrow
\* ------------------------------------------------------------------------
onlyAdmin(sender) == sender = ADMIN

\* _getBalance()
getBalance == bal[paymentToken][ESC]

\* mutant of canRefund: the admin deadline is not looked at
canRefund_NoDeadline ==
    IF status \in {"Refunded", "Executed", "Expired"} THEN FALSE
    ELSE IF status = "Rejected" THEN TRUE
    ELSE now >= expirationTime

canRefund ==
    IF status \in {"Refunded", "Executed", "Expired"} THEN FALSE
    ELSE IF status = "Rejected" THEN TRUE
    ELSE IF now >= expirationTime THEN TRUE
    ELSE status = "Active" /\ amount > 0 /\ now >= adminDeadline

\* _refund(_to, _amount): requires a positive amount; the transfer reverts when
\* the escrow holds less than _amount
CanRefundAmount(b, n) == n > 0 /\ b[paymentToken][ESC] >= n

\* mutant of deposit: an escrow that is already funded accepts a deposit
deposit_NoFundedCheck(sender, amt, value) ==
    /\ sender = INVESTOR
    /\ status = "Active"
    /\ now < expirationTime
    /\ bal[ZERO][sender] >= value
    /\ IF paymentToken = ZERO
       THEN /\ value > 0
            /\ amount' = value
            /\ bal' = Transfer(bal, ZERO, sender, ESC, value)
       ELSE /\ amt > 0
            /\ value = 0
            /\ bal[paymentToken][sender] >= amt
            /\ amount' = amt
            /\ bal' = Transfer(bal, paymentToken, sender, ESC, amt)
    /\ UNCHANGED <<saleLedger, lockupTVLReached, saleConfig, saleAdmin, status,
                   tokenAmount, approvedAmount, refundedAmount, paymentToken,
                   rejectionReason, now, tok, envConfig>>

\* deposit(_amount) with msg.value = value
deposit(sender, amt, value) ==
    /\ nonReentrant(ESC)
    /\ sender = INVESTOR
    /\ status = "Active"
    /\ amount = 0
    /\ now < expirationTime
    /\ bal[ZERO][sender] >= value
    /\ IF paymentToken = ZERO
       THEN /\ value > 0
            /\ amount' = value
            /\ bal' = Transfer(bal, ZERO, sender, ESC, value)
       ELSE /\ amt > 0
            /\ value = 0
            /\ bal[paymentToken][sender] >= amt
            /\ amount' = amt
            /\ bal' = Transfer(bal, paymentToken, sender, ESC, amt)
    /\ UNCHANGED <<saleLedger, lockupTVLReached, saleConfig, saleAdmin, status,
                   tokenAmount, approvedAmount, refundedAmount, paymentToken,
                   rejectionReason, now, tok, envConfig>>

\* msg.value of the purchaseWithEscrow call made by _executePurchase
executeValue(n) == IF paymentToken = ZERO THEN n ELSE 0

\* _executePurchase(n) succeeds iff the Sale's purchaseWithEscrow does
CanExecutePurchase(n) ==
    CanPurchaseWithEscrow(bal, ESC, INVESTOR, n, paymentToken, executeValue(n))

\* mutant of approveAndExecute: a failure of the Sale call is swallowed and the
\* approval is kept
approveAndExecute_Swallow(sender) ==
    /\ onlyAdmin(sender)
    /\ status = "Active" /\ amount > 0
    /\ now < expirationTime
    /\ approvedAmount' = amount
    /\ IF CanExecutePurchase(amount)
       THEN /\ tokenAmount' = escrowTokenAmount(amount)
            /\ status' = "Executed"
            /\ bal' = escrowPurchaseBal(bal, ESC, amount, paymentToken)
            /\ escrowPurchaseLedger(INVESTOR, amount, paymentToken)
       ELSE /\ status' = "Approved"
            /\ UNCHANGED <<saleLedger, tokenAmount, bal, tok>>
    /\ UNCHANGED <<lockupTVLReached, saleConfig, saleAdmin, amount, refundedAmount,
                   paymentToken, rejectionReason, now, envConfig>>

approveAndExecute(sender) ==
    /\ onlyAdmin(sender)
    /\ nonReentrant(ESC)
    /\ status = "Active" /\ amount > 0
    /\ now < expirationTime
    /\ CanExecutePurchase(amount)
    /\ approvedAmount' = amount
    /\ tokenAmount' = escrowTokenAmount(amount)
    /\ status' = "Executed"
    /\ bal' = escrowPurchaseBal(bal, ESC, amount, paymentToken)
    /\ escrowPurchaseLedger(INVESTOR, amount, paymentToken)
    /\ UNCHANGED <<lockupTVLReached, saleConfig, saleAdmin, amount, refundedAmount,
                   paymentToken, rejectionReason, now, envConfig>>

\* mutant of partialApproveAndExecute: the remainder is recorded as refunded
\* but stays in the escrow
partialApproveAndExecute_NoRefund(sender, approved) ==
    /\ onlyAdmin(sender)
    /\ status = "Active" /\ amount > 0
    /\ approved > 0 /\ approved < amount
    /\ now < expirationTime
    /\ CanExecutePurchase(approved)
    /\ approvedAmount' = approved
    /\ refundedAmount' = amount - approved
    /\ tokenAmount' = escrowTokenAmount(approved)
    /\ status' = "Executed"
    /\ bal' = escrowPurchaseBal(bal, ESC, approved, paymentToken)
    /\ escrowPurchaseLedger(INVESTOR, approved, paymentToken)
    /\ UNCHANGED <<lockupTVLReached, saleConfig, saleAdmin, amount, paymentToken,
                   rejectionReason, now, envConfig>>

partialApproveAndExecute(sender, approved) ==
    LET afterPurchase == escrowPurchaseBal(bal, ESC, approved, paymentToken)
    IN /\ onlyAdmin(sender)
       /\ nonReentrant(ESC)
       /\ status = "Active" /\ amount > 0
       /\ approved > 0 /\ approved < amount
       /\ now < expirationTime
       /\ CanExecutePurchase(approved)
       /\ CanRefundAmount(afterPurchase, amount - approved)
       /\ approvedAmount' = approved
       /\ refundedAmount' = amount - approved
       /\ tokenAmount' = escrowTokenAmount(approved)
       /\ status' = "Executed"
       /\ bal' = Transfer(afterPurchase, paymentToken, ESC, INVESTOR, amount - approved)
       /\ escrowPurchaseLedger(INVESTOR, approved, paymentToken)
       /\ UNCHANGED <<lockupTVLReached, saleConfig, saleAdmin, amount, paymentToken,
                      rejectionReason, now, envConfig>>

rejectAndRefund(sender, reason) ==
    /\ onlyAdmin(sender)
    /\ nonReentrant(ESC)
    /\ status = "Active" /\ amount > 0
    /\ CanRefundAmount(bal, amount)
    /\ status' = "Rejected"
    /\ rejectionReason' = reason
    /\ refundedAmount' = amount
    /\ bal' = Transfer(bal, paymentToken, ESC, INVESTOR, amount)
    /\ UNCHANGED <<saleLedger, lockupTVLReached, saleConfig, saleAdmin, amount,
                   tokenAmount, approvedAmount, paymentToken, now, tok, envConfig>>

refund(sender) ==
    /\ nonReentrant(ESC)
    /\ canRefund
    /\ CanRefundAmount(bal, amount)
    /\ status' = IF status = "Active" THEN "Expired" ELSE "Refunded"
    /\ refundedAmount' = amount
    /\ bal' = Transfer(bal, paymentToken, ESC, INVESTOR, amount)
    /\ UNCHANGED <<saleLedger, lockupTVLReached, saleConfig, saleAdmin, amount,
                   tokenAmount, approvedAmount, paymentToken, rejectionReason, now,
                   tok, envConfig>>

emergencyWithdraw(sender) ==
    /\ onlyAdmin(sender)
    /\ nonReentrant(ESC)
    /\ status # "Refunded" /\ status # "Executed"
    /\ getBalance > 0
    /\ status' = "Refunded"
    /\ refundedAmount' = getBalance
    /\ bal' = Transfer(bal, paymentToken, ESC, INVESTOR, getBalance)
    /\ UNCHANGED <<saleLedger, lockupTVLReached, saleConfig, saleAdmin, amount,
                   tokenAmount, approvedAmount, paymentToken, rejectionReason, now,
                   tok, envConfig>>

\* receive(): plain native transfers are accepted by a native-asset escrow
receive(sender, value) ==
    /\ paymentToken = ZERO
    /\ value > 0
    /\ bal[ZERO][sender] >= value
    /\ bal' = Transfer(bal, ZERO, sender, ESC, value)
    /\ UNCHANGED <<saleLedger, lockupTVLReached, saleConfig, saleAdmin, escrowVars,
                   now, tok, envConfig>>

\* The escrow of INVESTOR composed with the Sale it buys from
InitE ==
    /\ InitSale(OraclesE, {SVC})
    /\ InitEscrow
    /\ InitBackend
    /\ paymentToken \in Currencies
    /\ bal = [c \in Currencies |-> [a \in Holders |->
                 IF a \in Users THEN Wallet ELSE 0]]

NextE ==
    \/ \E s \in Callers, n \in 0..MaxPayment, v \in 0..MaxPayment : Call(deposit(s, n, v))
    \/ \E s \in Callers : Call(approveAndExecute(s))
    \/ \E s \in Callers, n \in 0..MaxPayment : Call(partialApproveAndExecute(s, n))
    \/ \E s \in Callers : Call(rejectAndRefund(s, "kyc"))
    \/ \E s \in Callers : Call(refund(s))
    \/ \E s \in Callers : Call(emergencyWithdraw(s))
    \/ \E u \in Users \ {INVESTOR}, v \in 1..MaxValue : Call(receive(u, v))
    \/ \E s \in Callers : Call(pause(s))
    \/ \E s \in Callers : Call(unpause(s))
    \/ Call(Tick(SaleTimes \cup EscrowTimes))

SpecE == InitE /\ [][NextE]_vars

\* ------------------------------------------------------------------------
\* Calls that hand control to a collaborator.  A native-asset transfer runs the
\* code of its recipient, which may call back into the contract before the
\* outer call returns.  The entry points followed here are those whose
\* transfer is their last step: transferFunds and claimBack of the Sale,
\* refund, rejectAndRefund and emergencyWithdraw of the escrow.
\* ------------------------------------------------------------------------
\* the entry points that carry the nonReentrant modifier
NonReentrant ==
    {"purchase", "purchaseWithEscrow", "unlock", "claimBack", "deposit",
     "approveAndExecute", "partialApproveAndExecute", "rejectAndRefund",
     "refund", "emergencyWithdraw"}

\* entry point fn of contract c, described by A, is entered and reaches the
\* transfer that runs the code of callee
Calling(A, c, fn, callee) ==
    /\ executing = None
    /\ A
    /\ executing' = [on |-> c, fn |-> fn, callee |-> callee, args |-> <<>>]
    /\ entered' = IF fn \in NonReentrant THEN [entered EXCEPT ![c] = TRUE]
                  ELSE entered
    /\ UNCHANGED backend

\* a call made from inside the callback, which runs to its end
Nested(A) ==
    /\ executing # None
    /\ A
    /\ UNCHANGED <<reentrancy, backend>>

\* the callback ends and the outer call returns
Return ==
    /\ executing # None
    /\ executing' = None
    /\ entered' = IF executing.fn \in NonReentrant
                  THEN [entered EXCEPT ![executing.on] = FALSE]
                  ELSE entered
    /\ UNCHANGED <<saleLedger, lockupTVLReached, saleConfig, saleAdmin, escrowVars,
                   now, bal, tok, envConfig, backend>>

InitR == InitAdmin({SVC})

NextR ==
    \/ \E u \in Users, c \in Currencies, v \in 0..Wallet :
          /\ c # ZERO => v = 0
          /\ Call(purchase(u, c, minPurchase, v))
    \/ \E s \in Callers :
          Calling(transferFunds(s, ZERO) /\ bal[ZERO][SALE] > 0,
                  SALE, "transferFunds", OWNER)
    \/ \E s \in Callers : Call(transferFunds(s, USDC))
    \/ \E u \in Users : Calling(claimBack(u, ZERO), SALE, "claimBack", u)
    \/ \E u \in Users : Calling(claimBackLegacy(u), SALE, "claimBack", u)
    \/ \E u \in Users : Call(claimBack(u, USDC))
    \/ \E v \in 1..MaxPayment : Call(deposit(INVESTOR, 0, v))
    \/ \E s \in Callers : Calling(refund(s), ESC, "refund", INVESTOR)
    \/ \E s \in Callers :
          Calling(rejectAndRefund(s, "kyc"), ESC, "rejectAndRefund", INVESTOR)
    \/ \E s \in Callers :
          Calling(emergencyWithdraw(s), ESC, "emergencyWithdraw", INVESTOR)
    \/ \E c \in Currencies :
          Nested(executing.on = SALE /\ transferFunds(executing.callee, c))
    \/ Return
    \/ Call(Tick(SaleTimes \cup EscrowTimes))

SpecR == InitR /\ [][NextR]_vars

\* ------------------------------------------------------------------------
\* Calls that hand over control before their last step.  purchase() pays the
\* platform fee to the fee recipient (sendValue) before its limit requires and
\* its ledger writes; approveAndExecute() calls the Sale, whose
\* purchaseWithEscrow() pays the fee after the purchase counters and before
\* paidAmount, the token distribution and the escrow's own writes.  The call
\* is followed up to that transfer and, once the recipient returns, to its
\* end.  Only calls that run to their end are followed.
\* ------------------------------------------------------------------------
\* fee recipient that is paid in the native asset, ZERO if there is none
feePaidTo(paymentAmount) ==
    LET f == calculatePlatformFee(paymentAmount)
    IN IF f.feeAmount > 0 THEN f.feeRecipient ELSE ZERO

\* purchase(address(0), amt) up to payable(feeRecipient).sendValue(feeAmount)
purchaseSendsFee(sender, amt, value) ==
    LET f == calculatePlatformFee(basePaymentAmount(amt))
    IN /\ executing = None
       /\ CanPurchase(sender, ZERO, amt, value)
       /\ feePaidTo(basePaymentAmount(amt)) # ZERO
       /\ bal' = Transfer(Transfer(bal, ZERO, sender, SALE, value),
                          ZERO, SALE, f.feeRecipient, f.feeAmount)
       /\ executing' = [on |-> SALE, fn |-> "purchase", callee |-> f.feeRecipient,
                        args |-> <<sender, amt>>]
       /\ entered' = [entered EXCEPT ![SALE] = TRUE]
       /\ UNCHANGED <<saleLedger, lockupTVLReached, saleConfig, saleAdmin, escrowVars,
                      now, tok, envConfig, backend>>

\* the rest of purchase() after the fee recipient has returned
purchaseReturns ==
    /\ executing.fn = "purchase"
    /\ LET sender == executing.args[1]
           amt == executing.args[2]
       IN /\ purchaseLedger(sender, ZERO, amt)
          /\ bal' = IF immediateTransfer
                    THEN Transfer(bal, ZERO, SALE, OWNER, basePaymentAmount(amt))
                    ELSE bal
    /\ executing' = None
    /\ entered' = [entered EXCEPT ![SALE] = FALSE]
    /\ UNCHANGED <<lockupTVLReached, saleConfig, saleAdmin, escrowVars, now,
                   envConfig, backend>>

\* approveAndExecute() of a native escrow up to the sendValue of the fee inside
\* the Sale's purchaseWithEscrow()
approveSendsFee(sender) ==
    LET f == calculatePlatformFee(amount)
        t == escrowTokenAmount(amount)
    IN /\ executing = None
       /\ onlyAdmin(sender)
       /\ nonReentrant(ESC)
       /\ status = "Active" /\ amount > 0
       /\ now < expirationTime
       /\ CanExecutePurchase(amount)
       /\ paymentToken = ZERO
       /\ feePaidTo(amount) # ZERO
       /\ status' = "Approved"
       /\ approvedAmount' = amount
       /\ purchaseOf' = [purchaseOf EXCEPT ![INVESTOR] = @ + t]
       /\ totalPurchases' = totalPurchases + t
       /\ totalPurchasesInCurrency' =
              [totalPurchasesInCurrency EXCEPT ![ZERO] = @ + netPayment(amount)]
       /\ hasParticipated' = [hasParticipated EXCEPT ![INVESTOR] = TRUE]
       /\ totalParticipants' = IF hasParticipated[INVESTOR] THEN totalParticipants
                               ELSE totalParticipants + 1
       /\ bal' = Transfer(Transfer(bal, ZERO, ESC, SALE, amount),
                          ZERO, SALE, f.feeRecipient, f.feeAmount)
       /\ executing' = [on |-> ESC, fn |-> "approveAndExecute",
                        callee |-> f.feeRecipient, args |-> <<t, netPayment(amount)>>]
       /\ entered' = [c \in {SALE, ESC} |-> TRUE]
       /\ UNCHANGED <<lockedBalanceOf, paidAmount, lockupTVLReached, saleConfig,
                      saleAdmin, amount, tokenAmount, refundedAmount, paymentToken,
                      rejectionReason, now, tok, envConfig, backend>>

\* the rest of purchaseWithEscrow() and of _executePurchase() after the fee
\* recipient has returned
approveReturns ==
    /\ executing.fn = "approveAndExecute"
    /\ LET t == executing.args[1]
           net == executing.args[2]
       IN /\ bal' = IF immediateTransfer THEN Transfer(bal, ZERO, SALE, OWNER, net)
                    ELSE bal
          /\ paidAmount' = IF immediateTransfer THEN paidAmount
                           ELSE [paidAmount EXCEPT ![INVESTOR][ZERO] = @ + net]
          /\ tok' = Distribute(INVESTOR, t)
          /\ lockedBalanceOf' = [lockedBalanceOf EXCEPT ![INVESTOR] = @ + lockedAmount(t)]
          /\ tokenAmount' = t
    /\ status' = "Executed"
    /\ executing' = None
    /\ entered' = [c \in {SALE, ESC} |-> FALSE]
    /\ UNCHANGED <<totalPurchases, purchaseOf, totalPurchasesInCurrency,
                   totalParticipants, hasParticipated, lockupTVLReached, saleConfig,
                   saleAdmin, amount, approvedAmount, refundedAmount, paymentToken,
                   rejectionReason, now, envConfig, backend>>

\* fee settings under which a purchase and an approval pay a fee
OraclesC ==
    { Oracle(REVERT, REVERTS, 10000, FEE, REVERT, REVERTS),
      Oracle(5000, FEE, REVERT, REVERTS, REVERT, REVERTS) }

InitC ==
    /\ InitSale(OraclesC, {SVC})
    /\ InitEscrow
    /\ InitBackend
    /\ paymentToken = ZERO
    /\ ~immediateTransfer
    /\ lockupTVL > 0
    /\ tok[SALE] = SaleTokens
    /\ bal = [c \in Currencies |-> [a \in Holders |->
                 IF a \in Users THEN Wallet ELSE 0]]

NextC ==
    \/ \E u \in Users, t \in {minPurchase, maxPurchase}, v \in 0..Wallet :
          /\ feePaidTo(basePaymentAmount(t)) = ZERO
          /\ Call(purchase(u, ZERO, t, v))
    \/ \E u \in Users, t \in {minPurchase, maxPurchase}, v \in 0..Wallet :
          purchaseSendsFee(u, t, v)
    \/ purchaseReturns
    \/ \E v \in 1..MaxPayment : Call(deposit(INVESTOR, 0, v))
    \/ \E s \in Callers : feePaidTo(amount) = ZERO /\ Call(approveAndExecute(s))
    \/ \E s \in Callers : approveSendsFee(s)
    \/ approveReturns
    \/ \E s \in Callers :
          Calling(transferFunds(s, ZERO) /\ bal[ZERO][SALE] > 0,
                  SALE, "transferFunds", OWNER)
    \/ \E u \in Users : Calling(claimBack(u, ZERO), SALE, "claimBack", u)
    \/ \E s \in Callers : Call(setLockupTVLReached(s))
    \/ \E u \in Users : Call(unlock(u))
    \/ \E s \in Callers : Calling(refund(s), ESC, "refund", INVESTOR)
    \/ \E s \in Callers :
          Calling(rejectAndRefund(s, "kyc"), ESC, "rejectAndRefund", INVESTOR)
    \/ \E s \in Callers :
          Calling(emergencyWithdraw(s), ESC, "emergencyWithdraw", INVESTOR)
    \/ executing.fn \notin {"purchase", "approveAndExecute"} /\ Return
    \/ Call(Tick(SaleTimes \cup EscrowTimes))

SpecC == InitC /\ [][NextC]_vars

\* ========================================================================
\* Properties
\* ========================================================================
Terminal == {"Executed", "Refunded", "Expired"}

\* C1: in every reachable state of the Sale totalPurchases <= hardcap and
\* purchaseOf[a] <= maxPurchase for every address a.
C1_CapsRespected ==
    /\ totalPurchases <= hardcap
    /\ \A a \in Users : purchaseOf[a] <= maxPurchase

\* C1 witness: purchases have filled the hardcap and one buyer's allowance.
C1_Witness ==
    /\ totalPurchases = hardcap
    /\ \E a \in Users : purchaseOf[a] = maxPurchase

\* C2: in vault mode, while the status is not Successful, for each payment
\* currency the recorded paid amounts of all investors add up to the balance
\* the Sale holds in that currency.
C2_Conservation ==
    (~immediateTransfer /\ state # "Successful") =>
        \A c \in Currencies :
            SumOver([u \in Users |-> paidAmount[u][c]], Users) = bal[c][SALE]

\* C3: once the escrow is Executed, Refunded or Expired,
\* approvedAmount + refundedAmount = amount.
C3_TerminalAmounts ==
    status \in Terminal => approvedAmount + refundedAmount = amount

\* C4: state() is Successful once totalPurchases >= hardcap, whatever the time;
\* below the hardcap it is Active before createdAt + duration, and afterwards
\* Successful if totalPurchases >= softcap and Failed if not.
C4_StateFunction ==
    /\ totalPurchases >= hardcap => state = "Successful"
    /\ (totalPurchases < hardcap /\ now < createdAt + duration) => state = "Active"
    /\ (totalPurchases < hardcap /\ now >= createdAt + duration
            /\ totalPurchases >= softcap) => state = "Successful"
    /\ (totalPurchases < hardcap /\ now >= createdAt + duration
            /\ totalPurchases < softcap) => state = "Failed"

\* C4 witness: the hardcap is reached while the sale period is still running,
\* and state() already answers Successful.
C4_Witness ==
    /\ totalPurchases >= hardcap
    /\ now < createdAt + duration
    /\ state = "Successful"

\* C5: once the escrow's status is Executed, Refunded or Expired, no later call
\* changes it.
C5_TerminalIsFinal ==
    [][(status \in Terminal) => (status' = status)]_vars

\* C6: with every other precondition met, each entry point accepts a purchase
\* of t tokens for buyer b exactly when minPurchase <= purchaseOf[b] + t <=
\* maxPurchase and totalPurchases + t <= hardcap, so both accept the same
\* (purchaseOf[b], t) pairs.
CumulativeLimits(b, t) ==
    /\ minPurchase <= purchaseOf[b] + t
    /\ purchaseOf[b] + t <= maxPurchase
    /\ totalPurchases + t <= hardcap

C6_SameLimits ==
    /\ \A b \in Users, c \in Currencies, t \in 1..MaxAmount, v \in 0..Wallet :
          ( /\ ~paused /\ onlyWhitelistedUser(b) /\ onlyWhitelistedCurrency(c)
            /\ state = "Active"
            /\ purchasePayment(b, c, t, v)
            /\ CanDistribute(t) )
          => (CanPurchase(b, c, t, v) <=> CumulativeLimits(b, t))
    /\ \A b \in Users, c \in Currencies, p \in 1..MaxPayment :
          LET funded == Transfer(bal, c, b, ESC, p)
              v == IF c = ZERO THEN p ELSE 0
          IN ( /\ ~paused /\ isValidEscrow(ESC) /\ onlyWhitelistedCurrency(c)
               /\ state = "Active"
               /\ bal[c][b] >= p
               /\ escrowPayment(funded, ESC, p, c, v)
               /\ CanDistribute(escrowTokenAmount(p)) )
             => (CanPurchaseWithEscrow(funded, ESC, b, p, c, v)
                    <=> CumulativeLimits(b, escrowTokenAmount(p)))

\* C7: a direct purchase succeeds only if the caller pays exactly base + fee:
\* the fee recipient receives fee, the owner (immediate mode) or the Sale
\* (vault mode) receives base, and nothing else leaves the caller.
C7_ExactPayment ==
    [][\A s \in Users, c \in Currencies, t \in 1..MaxAmount, v \in 0..Wallet :
         purchase(s, c, t, v) =>
           LET base == (t * price) \div WAD
               f == calculatePlatformFee(base)
               keeper == IF immediateTransfer THEN OWNER ELSE SALE
           IN /\ bal'[c][s] = bal[c][s] - (base + f.feeAmount)
              /\ \A d \in Currencies \ {c} : bal'[d][s] = bal[d][s]
              /\ f.feeAmount > 0 => bal'[c][f.feeRecipient] =
                                        bal[c][f.feeRecipient] + f.feeAmount
              /\ bal'[c][keeper] = bal[c][keeper] + base]_vars

\* C9: once lockupTVLReached holds and now >= createdAt + lockupDuration, every
\* address with a locked balance can successfully call unlock().
C9_UnlockSucceeds ==
    \A a \in Users :
        (unlockAvailable /\ lockedBalanceOf[a] > 0) => ENABLED unlock(a)

\* C10: lockedBalanceOf[a] decreases only through a's own unlock() call, made
\* while the unlock condition holds.
C10_OnlyUnlockLowers ==
    [][\A a \in Users :
          lockedBalanceOf'[a] < lockedBalanceOf[a] =>
              (unlockAvailable /\ unlock(a))]_vars

\* C10 as amended: lockedBalanceOf[a] decreases only through a's own unlock()
\* call made while the unlock condition holds, or through a's own claimBack
\* (either overload), which needs a Failed vault-mode sale; both set it to zero.
C10_UnlockOrClaimBackLowers ==
    [][\A a \in Users :
          lockedBalanceOf'[a] < lockedBalanceOf[a] =>
              /\ lockedBalanceOf'[a] = 0
              /\ \/ unlockAvailable /\ unlock(a)
                 \/ /\ state = "Failed" /\ ~immediateTransfer
                    /\ \/ \E c \in Currencies : claimBack(a, c)
                       \/ claimBackLegacy(a)]_vars

\* C10 witness: a buyer whose purchase was split while the lockup threshold was
\* not reached has claimed back, which cleared the locked balance.
C10_Witness ==
    \E a \in Users :
        /\ ~lockupTVLReached /\ lockupPercent > 0
        /\ hasParticipated[a]
        /\ state = "Failed" /\ ~immediateTransfer
        /\ purchaseOf[a] = 0 /\ lockedBalanceOf[a] = 0

\* C8: purchaseWithEscrow needs netPayment = paymentAmount - fee > 0 (a fee that
\* eats the payment makes the call fail), sells netPayment * 1e18 / price
\* tokens, and returns the amount it added to purchaseOf[investor] and to
\* totalPurchases.  The escrow stores the returned value in tokenAmount.
C8_EscrowTokenAmount ==
    [][/\ \A p \in 1..MaxPayment :
            calculatePlatformFee(p).feeAmount >= p =>
                ~CanPurchaseWithEscrow(bal, ESC, INVESTOR, p, paymentToken,
                                       executeValue(p))
       /\ (status # "Executed" /\ status' = "Executed") =>
            LET paid == approvedAmount'
                net == paid - calculatePlatformFee(paid).feeAmount
            IN /\ net > 0
               /\ tokenAmount' = (net * WAD) \div price
               /\ purchaseOf'[INVESTOR] = purchaseOf[INVESTOR] + tokenAmount'
               /\ totalPurchases' = totalPurchases + tokenAmount']_vars

\* C8 witness: an approval has executed a purchase on which a fee was charged.
C8_Witness ==
    /\ status = "Executed"
    /\ tokenAmount > 0
    /\ calculatePlatformFee(approvedAmount).feeAmount > 0
    /\ purchaseOf[INVESTOR] = tokenAmount

\* C11: claimBack(currency) succeeds only when state() is Failed, the sale is
\* in vault mode and paidAmount[caller][currency] > 0; it pays the caller
\* exactly that amount and zeroes that entry, purchaseOf[caller] and
\* lockedBalanceOf[caller]; the caller's paid amounts in the other currencies
\* are left as they were, and each of them can still be claimed in full.
C11_ClaimBackPerCurrency ==
    /\ [][\A a \in Users, c \in Currencies :
            paidAmount'[a][c] < paidAmount[a][c] =>
                /\ state = "Failed" /\ ~immediateTransfer
                /\ paidAmount'[a][c] = 0
                /\ bal'[c][a] = bal[c][a] + paidAmount[a][c]
                /\ bal'[c][SALE] = bal[c][SALE] - paidAmount[a][c]
                /\ purchaseOf'[a] = 0 /\ lockedBalanceOf'[a] = 0
                /\ \A d \in Currencies \ {c} :
                      /\ paidAmount'[a][d] = paidAmount[a][d]
                      /\ bal'[d] = bal[d]]_vars
    /\ [](\A a \in Users, c \in Currencies :
            IF state = "Failed" /\ ~immediateTransfer /\ paidAmount[a][c] > 0
            THEN ENABLED claimBack(a, c)
            ELSE ~ENABLED claimBack(a, c))

\* C11 witness: an investor who paid in both currencies of a failed vault-mode
\* sale has claimed one of them back; the other is still recorded in full.
C11_Witness ==
    \E a \in Users, c \in Currencies, d \in Currencies :
        /\ c # d
        /\ state = "Failed" /\ ~immediateTransfer
        /\ hasParticipated[a] /\ purchaseOf[a] = 0
        /\ paidAmount[a][c] = 0
        /\ totalPurchasesInCurrency[c] > 0
        /\ \A u \in Users \ {a} : ~hasParticipated[u]
        /\ paidAmount[a][d] > 0
        /\ paidAmount[a][d] = totalPurchasesInCurrency[d]

\* C12: for a funded escrow on which the admin has taken no action (it is
\* still Active), once now >= adminDeadline a refund() by any caller succeeds,
\* pays the whole deposit to the investor and to nobody else, sets
\* refundedAmount = amount and sets the status to Expired.
C12_RefundAfterDeadline ==
    /\ [](\A s \in Callers :
            (status = "Active" /\ amount > 0 /\ now >= adminDeadline)
                => ENABLED refund(s))
    /\ [][(status = "Active" /\ amount > 0 /\ now >= adminDeadline
              /\ \E s \in Callers : refund(s)) =>
            /\ status' = "Expired"
            /\ refundedAmount' = amount
            /\ bal'[paymentToken][INVESTOR] = bal[paymentToken][INVESTOR] + amount
            /\ bal'[paymentToken][ESC] = bal[paymentToken][ESC] - amount
            /\ \A h \in Holders \ {INVESTOR, ESC} :
                  bal'[paymentToken][h] = bal[paymentToken][h]]_vars

\* C12 witness: the deposit was refunded after the admin deadline and before
\* the hard expiration.
C12_Witness ==
    /\ status = "Expired"
    /\ amount > 0 /\ refundedAmount = amount
    /\ now >= adminDeadline /\ now < expirationTime
    /\ bal[paymentToken][INVESTOR] = Wallet

\* C13: partialApproveAndExecute(a) succeeds only for an admin caller on an
\* Active, funded, unexpired escrow with 0 < a < amount; in the same call the
\* Sale receives a purchase for exactly a, the investor is refunded exactly
\* amount - a, and the escrow ends Executed with approvedAmount = a and
\* refundedAmount = amount - a.
C13_PartialApproval ==
    /\ [](\A s \in Callers, a \in 0..MaxPayment :
            (ENABLED partialApproveAndExecute(s, a)) =>
                /\ s = ADMIN
                /\ status = "Active" /\ amount > 0 /\ now < expirationTime
                /\ 0 < a /\ a < amount)
    /\ [][\A s \in Callers, a \in 0..MaxPayment :
            partialApproveAndExecute(s, a) =>
                LET fee == calculatePlatformFee(a)
                    net == a - fee.feeAmount
                    keeper == IF immediateTransfer THEN OWNER ELSE SALE
                    paidTo(h) == bal'[paymentToken][h] - bal[paymentToken][h]
                IN /\ status' = "Executed"
                   /\ approvedAmount' = a
                   /\ refundedAmount' = amount - a
                   /\ amount' = amount
                   /\ paidTo(INVESTOR) = amount - a
                   /\ paidTo(ESC) = 0 - amount
                   /\ paidTo(SALE) + paidTo(OWNER) + paidTo(FEE) = a
                   /\ paidTo(keeper) = net
                   /\ tokenAmount' = (net * WAD) \div price
                   /\ purchaseOf'[INVESTOR] = purchaseOf[INVESTOR] + tokenAmount'
                   /\ totalPurchases' = totalPurchases + tokenAmount']_vars

\* C13 witness: a deposit of 3 was approved for 2 and 1 went back.
C13_Witness ==
    /\ status = "Executed"
    /\ amount = 3 /\ approvedAmount = 2 /\ refundedAmount = 1
    /\ tokenAmount > 0
    /\ bal[paymentToken][INVESTOR] = Wallet - 2

\* C14: deposit succeeds at most once, and only when called by the investor
\* while the status is Active, amount is zero and now < expirationTime; once
\* set, amount is never changed again by any operation.
C14_DepositOnce ==
    /\ [](\A s \in Callers, n \in 0..MaxPayment, v \in 0..MaxPayment :
            (ENABLED deposit(s, n, v)) =>
                /\ s = INVESTOR
                /\ status = "Active" /\ amount = 0 /\ now < expirationTime)
    /\ [][/\ amount # 0 => amount' = amount
          /\ amount' # amount =>
                /\ amount' > 0
                /\ \E n \in 0..MaxPayment, v \in 0..MaxPayment :
                      deposit(INVESTOR, n, v)]_vars

\* C14 witness: a funded escrow that has been emptied by a refund keeps its
\* amount while the investor still has funds to deposit.
C14_Witness ==
    /\ amount > 0
    /\ status \in {"Rejected", "Refunded"}
    /\ getBalance = 0
    /\ now < expirationTime
    /\ bal[paymentToken][INVESTOR] > 0

\* C15: when the Sale's purchaseWithEscrow fails during approveAndExecute or
\* partialApproveAndExecute, the escrow is left as it was: Active, with
\* approvedAmount, refundedAmount and tokenAmount unchanged and the funds still
\* held; the admin can retry, and the time-based refund() still becomes
\* available.
C15_FailedApprovalIsAtomic ==
    /\ [](status \in {"Active", "Rejected", "Executed", "Refunded", "Expired"})
    /\ [](status = "Active" =>
            /\ approvedAmount = 0 /\ refundedAmount = 0 /\ tokenAmount = 0
            /\ getBalance >= amount)
    /\ [](\A a \in 1..MaxPayment :
            (status = "Active" /\ amount > 0 /\ now < expirationTime
                /\ ~CanExecutePurchase(a)) =>
              /\ a = amount => ~ENABLED approveAndExecute(ADMIN)
              /\ ~ENABLED partialApproveAndExecute(ADMIN, a))
    /\ [](status = "Active" /\ amount > 0 /\ now < expirationTime
            /\ CanExecutePurchase(amount) => ENABLED approveAndExecute(ADMIN))
    /\ [](status = "Active" /\ amount > 0 /\ now >= adminDeadline
            => ENABLED refund(INVESTOR))
    /\ [][(approvedAmount' # approvedAmount \/ tokenAmount' # tokenAmount) =>
            /\ status = "Active" /\ status' = "Executed"
            /\ CanExecutePurchase(approvedAmount')
            /\ totalPurchases' > totalPurchases]_vars

\* C15 witness: a funded escrow whose approval fails in the Sale although the
\* sale is open (limits, fee or minting right), the funds still in the escrow.
C15_Witness ==
    /\ status = "Active" /\ amount > 0
    /\ now < createdAt + duration /\ ~paused
    /\ ~CanExecutePurchase(amount)
    /\ getBalance >= amount

\* C17: every administrative operation of the Sale (whitelist add / remove for
\* users and currencies, pause / unpause, setLockupTVLReached and its forced
\* variant, setServiceContract, setTenantId, mintReservedTokens, transferFunds)
\* succeeds only when the caller is the owner, in every reachable state,
\* including the one in which no service contract has been set.
C17_AdminOnlyOwner ==
    \A s \in Callers \ {OWNER} :
        /\ ~ENABLED addToUserWhitelist(s, <<"u1">>)
        /\ ~ENABLED removeFromUserWhitelist(s, <<"u1">>)
        /\ ~ENABLED addToTokenWhitelist(s, <<ZERO>>)
        /\ ~ENABLED removeFromTokenWhitelist(s, <<ZERO>>)
        /\ ~ENABLED pause(s)
        /\ ~ENABLED unpause(s)
        /\ ~ENABLED setLockupTVLReached(s)
        /\ \A f \in BOOLEAN : ~ENABLED setLockupTVLReachedForced(s, f)
        /\ \A id \in {0, 1} : ~ENABLED setTenantId(s, id)
        /\ ~ENABLED mintReservedTokens(s)
        /\ \A c \in Currencies : ~ENABLED transferFunds(s, c)
        /\ \A sc \in {SVC, SVC2}, o \in OraclesA :
              ~ENABLED setServiceContract(s, sc, o)

\* C18: every whitelist batch operation, add and remove, for users and for
\* currencies, rejects an array longer than MAX_WHITELIST_BATCH and leaves the
\* whitelist unchanged.
C18_BatchCapped ==
    \A s \in Callers :
        /\ \A b \in UserBatches :
              Len(b) > MAX_WHITELIST_BATCH =>
                  /\ ~ENABLED addToUserWhitelist(s, b)
                  /\ ~ENABLED removeFromUserWhitelist(s, b)
        /\ \A b \in TokenBatches :
              Len(b) > MAX_WHITELIST_BATCH =>
                  /\ ~ENABLED addToTokenWhitelist(s, b)
                  /\ ~ENABLED removeFromTokenWhitelist(s, b)

\* C19: a direct purchase is subject to the user whitelist: once
\* removeFromUserWhitelist has removed u, no purchase by u succeeds until u is
\* added again; removal only clears the flag and the whitelist array never
\* shrinks, so removing every added user does not reopen the sale to callers
\* that are not whitelisted.
C19_RemovedUserCannotPurchase ==
    /\ [](\A u \in Users :
            /\ isUserWhitelisted[u] => \E i \in 1..Len(userWhitelist) :
                                           userWhitelist[i] = u
            /\ (Len(userWhitelist) > 0 /\ ~isUserWhitelisted[u]) =>
                  \A c \in Currencies, t \in 1..MaxAmount, v \in 0..Wallet :
                      ~ENABLED purchase(u, c, t, v))
    /\ [][/\ Len(userWhitelist') >= Len(userWhitelist)
          /\ \A i \in 1..Len(userWhitelist) : userWhitelist'[i] = userWhitelist[i]
          /\ \A u \in Users :
                /\ (isUserWhitelisted[u] /\ ~isUserWhitelisted'[u]) =>
                      \E b \in UserBatches : removeFromUserWhitelist(OWNER, b)
                /\ (~isUserWhitelisted[u] /\ isUserWhitelisted'[u]) =>
                      \E b \in UserBatches : addToUserWhitelist(OWNER, b)]_vars

\* C19 witness: a user bought while whitelisted, then every added user was
\* removed; the sale is open and not paused, and the whitelist is not empty.
C19_Witness ==
    /\ Len(userWhitelist) > 0
    /\ \A u \in Users : ~isUserWhitelisted[u]
    /\ \E u \in Users : purchaseOf[u] > 0
    /\ state = "Active" /\ ~paused

\* C20: unlock() is idempotent once the balance is zero: after a successful
\* unlock() by a, the next unlock() by a fails for lack of a locked balance,
\* so it changes no ledger entry and no token balance.
C20_UnlockIdempotent ==
    /\ [](\A a \in Users : lockedBalanceOf[a] = 0 => ~ENABLED unlock(a))
    /\ [][\A a \in Users :
            unlock(a) =>
                /\ lockedBalanceOf'[a] = 0
                /\ tok'[a] = tok[a] + lockedBalanceOf[a]
                /\ ~(CanUnlock(a))']_vars

\* C20 witness: a buyer whose purchase was split has unlocked and holds all the
\* purchased tokens, while the Sale still holds tokens.
C20_Witness ==
    \E a \in Users :
        /\ unlockAvailable /\ lockupTVL > 0
        /\ purchaseOf[a] > 0 /\ lockedBalanceOf[a] = 0
        /\ tok[a] = purchaseOf[a]
        /\ tok[SALE] > 0
        /\ ~minterRole
        /\ getTVL < lockupTVL

\* C16: every value-moving entry point is protected by the reentrancy guard:
\* while one of them is executing on the Sale (or on the escrow), no call made
\* by the collaborator that holds control into a value-moving entry point of
\* the same contract succeeds.
C16_NoReentry ==
    executing # None =>
        LET x == executing.callee
        IN IF executing.on = SALE
           THEN /\ \A c \in Currencies : ~ENABLED transferFunds(x, c)
                /\ x \in Users =>
                      /\ \A c \in Currencies, t \in 1..MaxAmount, v \in 0..Wallet :
                            ~ENABLED purchase(x, c, t, v)
                      /\ ~ENABLED unlock(x)
                      /\ \A c \in Currencies : ~ENABLED claimBack(x, c)
                      /\ ~ENABLED claimBackLegacy(x)
           ELSE /\ \A n \in 0..MaxPayment, v \in 0..MaxPayment :
                      ~ENABLED deposit(x, n, v)
                /\ ~ENABLED approveAndExecute(x)
                /\ \A n \in 0..MaxPayment : ~ENABLED partialApproveAndExecute(x, n)
                /\ ~ENABLED rejectAndRefund(x, "kyc")
                /\ ~ENABLED refund(x)
                /\ ~ENABLED emergencyWithdraw(x)

\* ------------------------------------------------------------------------
\* The fee oracle: every combination of reverting and answering calls of the
\* three interfaces, with and without a service contract and a tenant id
\* ------------------------------------------------------------------------
OraclesF ==
    { Oracle(minRate, minRcpt, tenRate, tenRcpt, platRate, platRcpt) :
        minRate \in {REVERT, 0, 5000}, minRcpt \in {REVERTS, ZERO, FEE},
        tenRate \in {REVERT, 0, 10000}, tenRcpt \in {REVERTS, ZERO, FEE},
        platRate \in {REVERT, 0, 10000}, platRcpt \in {REVERTS, ZERO, OWNER} }

InitF ==
    /\ InitSale(OraclesF, {ZERO, SVC})
    /\ InitEscrow
    /\ InitBackend
    /\ paymentToken = ZERO
    /\ ~immediateTransfer
    /\ lockupTVL > 0
    /\ tok[SALE] = SaleTokens
    /\ minterRole
    /\ bal = [c \in Currencies |-> [a \in Holders |->
                 IF a \in Users THEN Wallet ELSE 0]]

NextF ==
    \/ \E s \in Callers, id \in {0, 1} : Call(setTenantId(s, id))
    \/ \E u \in Users, t \in {minPurchase, maxPurchase}, v \in 0..Wallet :
          Call(purchase(u, ZERO, t, v))

SpecF == InitF /\ [][NextF]_vars

\* ------------------------------------------------------------------------
\* Backend: AuditService (src/backend/02-deal-repository.ts)
\* ------------------------------------------------------------------------
REDACT_FIELDS ==
    {"jwt", "token", "accessToken", "refreshToken", "apiKey", "apiSecret",
     "password", "passwordHash", "secret", "privateKey", "signingKey",
     "ssn", "socialSecurityNumber", "taxId", "passport", "driversLicense",
     "creditCard", "cardNumber", "cvv", "bankAccount", "routingNumber"}

MASK_FIELDS ==
    {"email", "phone", "phoneNumber", "walletAddress", "address",
     "firstName", "lastName", "fullName", "dateOfBirth", "dob"}

REDACTED == <<"[", "R", "E", "D", "A", "C", "T", "E", "D", "]">>
MASKED == <<"[", "M", "A", "S", "K", "E", "D", "]">>

\* the field names and string values of the details objects explored
FieldNames == {"password", "Password", "email", "note"}
Strings == {Str(<<"h", "u", "n", "t", "e", "r">>), Str(<<"a", "b", "c">>)}

\* String.prototype.toLowerCase on the field names
toLowerCase(key) == IF key = "Password" THEN "password" ELSE key

\* nesting depth of the values of a details object, its number of top-level
\* fields, and the number of rows written
MaxNesting == 2
MaxEntries == 2
MaxLogs == 2

\* JSON values nested at most d deep (nested objects and arrays hold one
\* member each)
RECURSIVE Values(_)
Values(d) ==
    IF d = 0 THEN Strings
    ELSE LET V == Values(d - 1)
         IN Strings
            \cup { Obj(<<[key |-> k, value |-> v]>>) : k \in FieldNames, v \in V }
            \cup { Arr(<<v>>) : v \in V }

\* the details objects: up to MaxEntries fields with distinct names
Details ==
    LET V == Values(MaxNesting)
    IN { Obj(e) : e \in { e \in UNION { [1..n -> [key : FieldNames, value : V]] :
                                         n \in 1..MaxEntries } :
                          \A i, j \in DOMAIN e : i # j => e[i].key # e[j].key } }

Entries == { [details |-> d] : d \in Details \cup {Null} }

\* value.slice(0, 2) + '***' + value.slice(-2)
maskString(chars) ==
    SubSeq(chars, 1, 2) \o <<"*", "*", "*">> \o SubSeq(chars, Len(chars) - 1, Len(chars))

RECURSIVE redactAuditDetails(_)
redactAuditDetails(details) ==
    IF details.type # "object" THEN details
    ELSE Obj([i \in DOMAIN details.entries |->
                LET key == details.entries[i].key
                    value == details.entries[i].value
                    lowerKey == toLowerCase(key)
                IN [key |-> key,
                    value |->
                       IF key \in REDACT_FIELDS \/ lowerKey \in REDACT_FIELDS
                       THEN Str(REDACTED)
                       ELSE IF key \in MASK_FIELDS \/ lowerKey \in MASK_FIELDS
                       THEN IF value.type = "string" /\ Len(value.chars) > 4
                            THEN Str(maskString(value.chars))
                            ELSE Str(MASKED)
                       ELSE IF value.type = "object"
                       THEN redactAuditDetails(value)
                       ELSE value]])

\* JSON.stringify: the text of a value, as its sequence of tokens
RECURSIVE JSONstringify(_)
JSONstringify(v) ==
    LET members == IF v.type = "object" THEN v.entries ELSE v.items
        text(i) == IF v.type = "object"
                   THEN <<"\"", members[i].key, "\"", ":">> \o JSONstringify(members[i].value)
                   ELSE JSONstringify(members[i])
        joined[i \in 0..Len(members)] ==
            IF i = 0 THEN <<>>
            ELSE joined[i - 1] \o (IF i > 1 THEN <<",">> ELSE <<>>) \o text(i)
    IN CASE v.type = "null" -> <<"null">>
         [] v.type = "string" -> <<"\"">> \o v.chars \o <<"\"">>
         [] v.type = "object" -> <<"{">> \o joined[Len(members)] \o <<"}">>
         [] v.type = "array" -> <<"[">> \o joined[Len(members)] \o <<"]">>

\* the value bound to the column details (<<>> is SQL NULL)
detailsColumn(details) ==
    IF details = Null THEN <<>> ELSE JSONstringify(redactAuditDetails(details))

\* AuditService.log: one INSERT; a failure of the query is swallowed
log ==
    /\ Len(audit_logs) < MaxLogs
    /\ \E inserted \in BOOLEAN :
          audit_logs' = IF inserted
                        THEN Append(audit_logs, [details |-> detailsColumn(entry.details)])
                        ELSE audit_logs
    /\ UNCHANGED <<entry, chain, repository>>

\* AuditService.cleanupOldLogs: the rows older than the retention period
\* (the oldest n rows) are deleted
cleanupOldLogs ==
    /\ \E n \in 1..Len(audit_logs) : audit_logs' = SubSeq(audit_logs, n + 1, Len(audit_logs))
    /\ UNCHANGED <<entry, chain, repository>>

InitAudit ==
    /\ InitChain({SVC})
    /\ minterRole
    /\ entry \in Entries
    /\ audit_logs = <<>>
    /\ InitRepository

NextAudit ==
    \/ log
    \/ cleanupOldLogs

SpecAudit == InitAudit /\ [][NextAudit]_vars

\* ------------------------------------------------------------------------
\* Backend: DealRepository.createDeal (src/backend/02-deal-repository.ts).
\* Every awaited call is a step that either succeeds or throws.  A statement
\* that fails aborts the open transaction; rows written in a transaction
\* reach the tables at COMMIT.
\* ------------------------------------------------------------------------
\* the related tables, in the order of the Promise.all
Related ==
    <<"deal_key_terms", "deal_faqs", "deal_documents", "required_documents",
      "deals_media">>

RelatedTables == { Related[i] : i \in DOMAIN Related }

\* the client after a statement has failed
failed(c) == [c EXCEPT !.transaction = IF @ = "open" THEN "aborted" ELSE @]

\* const client = await pool.connect(), outside the try
connect ==
    /\ pc = "connect"
    /\ \E ok \in BOOLEAN :
          IF ok THEN /\ client' = [client EXCEPT !.acquired = TRUE]
                     /\ pc' = "BEGIN"
          ELSE /\ pc' = "thrown"
               /\ UNCHANGED client
    /\ UNCHANGED <<deal, tables, chain, audit>>

\* await client.query('BEGIN')
begin ==
    /\ pc = "BEGIN"
    /\ \E ok \in BOOLEAN :
          IF ok THEN /\ client' = [client EXCEPT !.transaction = "open"]
                     /\ pc' = "INSERT INTO deals"
          ELSE /\ pc' = "ROLLBACK"
               /\ UNCHANGED client
    /\ UNCHANGED <<deal, tables, chain, audit>>

\* the INSERT of the main deal record
insertDeal ==
    /\ pc = "INSERT INTO deals"
    /\ \E ok \in BOOLEAN :
          IF ok THEN /\ client' = [client EXCEPT !.rows = @ \cup {"deals"}]
                     /\ pc' = "Promise.all"
          ELSE /\ client' = failed(client)
               /\ pc' = "ROLLBACK"
    /\ UNCHANGED <<deal, tables, chain, audit>>

\* Promise.all of insertKeyTerms, insertFaqs, insertDocuments,
\* insertRequiredDocuments, insertMedia: each non-empty list issues one INSERT;
\* the statements are queued on the client in this order, and the k-th one
\* fails (k = 0: none), after which the later ones fail in the aborted
\* transaction
insertRelated ==
    /\ pc = "Promise.all"
    /\ \E k \in 0..Len(Related) :
          IF k = 0
          THEN /\ client' = [client EXCEPT !.rows = @ \cup deal]
               /\ pc' = "COMMIT"
          ELSE /\ Related[k] \in deal
               /\ client' = failed([client EXCEPT !.rows =
                                @ \cup { Related[i] : i \in { j \in 1..(k - 1) :
                                                                Related[j] \in deal } }])
               /\ pc' = "ROLLBACK"
    /\ UNCHANGED <<deal, tables, chain, audit>>

\* await client.query('COMMIT')
commit ==
    /\ pc = "COMMIT"
    /\ \E ok \in BOOLEAN :
          IF ok THEN /\ tables' = tables \cup client.rows
                     /\ client' = [client EXCEPT !.rows = {}, !.transaction = "none"]
                     /\ pc' = "getDealById"
          ELSE /\ client' = failed(client)
               /\ pc' = "ROLLBACK"
               /\ UNCHANGED tables
    /\ UNCHANGED <<deal, chain, audit>>

\* const createdDeal = await this.getDealById(dealId, currentTenantId), a
\* read through the pool: it returns the deal, throws, or returns null (no
\* row found), on which createDeal throws
getDealById ==
    /\ pc = "getDealById"
    /\ \E result \in {"deal", "null", "throws"} :
          /\ result = "null" => "deals" \notin tables
          /\ pc' = IF result = "deal" THEN "release, return" ELSE "ROLLBACK"
    /\ UNCHANGED <<deal, client, tables, chain, audit>>

\* catch: await client.query('ROLLBACK'); throw error.  The rows of an open
\* or aborted transaction are discarded (also when the statement fails with
\* the connection); with no transaction open nothing happens
rollback ==
    /\ pc = "ROLLBACK"
    /\ client' = [client EXCEPT !.rows = {}, !.transaction = "none"]
    /\ pc' = "release, throw"
    /\ UNCHANGED <<deal, tables, chain, audit>>

\* finally: client.release()
release ==
    /\ pc \in {"release, return", "release, throw"}
    /\ client' = [client EXCEPT !.released = @ + 1]
    /\ pc' = IF pc = "release, return" THEN "returned" ELSE "thrown"
    /\ UNCHANGED <<deal, tables, chain, audit>>

\* a createDeal call for every choice of empty and non-empty related lists
InitDeal ==
    /\ InitChain({SVC})
    /\ minterRole
    /\ entry = [details |-> Null]
    /\ audit_logs = <<>>
    /\ deal \in SUBSET RelatedTables
    /\ pc = "connect"
    /\ client = [acquired |-> FALSE, transaction |-> "none", rows |-> {}, released |-> 0]
    /\ tables = {}

NextDeal ==
    \/ connect
    \/ begin
    \/ insertDeal
    \/ insertRelated
    \/ commit
    \/ getDealById
    \/ rollback
    \/ release

SpecDeal == InitDeal /\ [][NextDeal]_vars

\* the value v with the value of every field named in REDACT_FIELDS, at any
\* depth, replaced by secret
RECURSIVE withSecret(_, _)
withSecret(v, secret) ==
    CASE v.type = "object" ->
            Obj([i \in DOMAIN v.entries |->
                    [key |-> v.entries[i].key,
                     value |-> IF v.entries[i].key \in REDACT_FIELDS THEN secret
                               ELSE withSecret(v.entries[i].value, secret)]])
      [] v.type = "array" -> Arr([i \in DOMAIN v.items |-> withSecret(v.items[i], secret)])
      [] OTHER -> v

\* another value with the same masked form: the same first and last two
\* characters for a string longer than 4, the empty string otherwise
sameMask(v) ==
    IF v.type = "string" /\ Len(v.chars) > 4
    THEN Str(SubSeq(v.chars, 1, 2) \o <<"#">> \o SubSeq(v.chars, Len(v.chars) - 1, Len(v.chars)))
    ELSE Str(<<>>)

\* the value v with the value of every field named in MASK_FIELDS, at any
\* depth, replaced by another value with the same masked form
RECURSIVE withMasked(_)
withMasked(v) ==
    CASE v.type = "object" ->
            Obj([i \in DOMAIN v.entries |->
                    [key |-> v.entries[i].key,
                     value |-> IF v.entries[i].key \in MASK_FIELDS
                               THEN sameMask(v.entries[i].value)
                               ELSE withMasked(v.entries[i].value)]])
      [] v.type = "array" -> Arr([i \in DOMAIN v.items |-> withMasked(v.items[i])])
      [] OTHER -> v

Secrets == {Str(<<"o", "t", "h", "e", "r">>), Null}

\* C21: the JSON that AuditService.log writes to audit_logs does not depend
\* on the value of any field named in REDACT_FIELDS, at any nesting depth of
\* the details object (the details with other values in those fields are
\* stored identically), and it depends on the value of a field named in
\* MASK_FIELDS only through its masked form.
C21_DetailsSanitized ==
    [][(Len(audit_logs') > Len(audit_logs)) =>
         LET stored == audit_logs'[Len(audit_logs')].details
         IN /\ \A secret \in Secrets :
                  stored = detailsColumn(withSecret(entry.details, secret))
            /\ stored = detailsColumn(withMasked(entry.details))]_vars

\* C22: refund() is callable by anyone exactly when canRefund() holds: in
\* every reachable state in which canRefund() returns true a refund() by any
\* address succeeds, and in every state in which it returns false refund()
\* fails; a successful refund() pays the investor the deposit and sets the
\* status to Expired if it was Active and to Refunded if it was Rejected.
C22_RefundIffCanRefund ==
    /\ [](\A s \in Callers : canRefund <=> ENABLED refund(s))
    /\ [][(\E s \in Callers : refund(s)) =>
            /\ bal'[paymentToken][INVESTOR] = bal[paymentToken][INVESTOR] + amount
            /\ status = "Active" => status' = "Expired"
            /\ status = "Rejected" => status' = "Refunded"]_vars

\* C23: checks-effects-interactions: in every value-moving entry point the
\* updates of the internal bookkeeping (totalPurchases, purchaseOf,
\* paidAmount, lockedBalanceOf, the participant set; the escrow's status and
\* amounts) happen before the first external value-transfer call: once the
\* called collaborator returns, the rest of the operation changes none of
\* them, so the collaborator has observed the already-updated ledger.
C23_EffectsBeforeInteractions ==
    [][(executing # None /\ executing' = None) =>
         UNCHANGED <<totalPurchases, purchaseOf, paidAmount, lockedBalanceOf,
                     hasParticipated, totalParticipants, status, amount,
                     tokenAmount, approvedAmount, refundedAmount>>]_vars

\* the rate and the recipient that the cascade of interfaces resolves
resolvedRate ==
    IF oracle.minRate # REVERT THEN oracle.minRate
    ELSE IF tenantId # 0 /\ oracle.tenRate \notin {REVERT, 0} THEN oracle.tenRate
    ELSE IF oracle.platRate # REVERT THEN oracle.platRate
    ELSE 0

resolvedRecipient ==
    IF oracle.minRate # REVERT
    THEN (IF oracle.minRcpt = REVERTS THEN ZERO ELSE oracle.minRcpt)
    ELSE IF tenantId # 0 /\ oracle.tenRate # REVERT /\ oracle.tenRcpt \notin {REVERTS, ZERO}
    THEN oracle.tenRcpt
    ELSE IF oracle.platRcpt # REVERTS THEN oracle.platRcpt
    ELSE ZERO

C25_TokenDistribution ==
    /\ [][\A u \in Users : purchaseOf'[u] > purchaseOf[u] =>
            LET t == purchaseOf'[u] - purchaseOf[u]
                unlocked == IF lockupTVLReached THEN t
                            ELSE (t * (BPS - lockupPercent)) \div BPS
                fromSale == Min(unlocked, tok[SALE])
            IN /\ tok'[u] = tok[u] + unlocked
               /\ lockedBalanceOf'[u] = lockedBalanceOf[u] + (t - unlocked)
               /\ tok'[SALE] = tok[SALE] - fromSale
               /\ SumOver(tok', DOMAIN tok) = SumOver(tok, DOMAIN tok) + (unlocked - fromSale)
               /\ unlocked > fromSale => minterRole]_vars
    /\ [](\A u \in Users, c \in Currencies :
            /\ \A t \in 1..MaxAmount, v \in 0..Wallet :
                  LET unlocked == IF lockupTVLReached THEN t
                                  ELSE (t * (BPS - lockupPercent)) \div BPS
                  IN (unlocked > tok[SALE] /\ ~minterRole) => ~ENABLED purchase(u, c, t, v)
            /\ \A p \in 1..MaxPayment :
                  LET t == escrowTokenAmount(p)
                      unlocked == IF lockupTVLReached THEN t
                                  ELSE (t * (BPS - lockupPercent)) \div BPS
                  IN (unlocked > tok[SALE] /\ ~minterRole) => ~ENABLED escrowApproval(u, p, c))

\* C25 witness: a purchase made before the lockup threshold was reached left
\* a part locked, a later purchase was delivered in full, the Sale's own
\* tokens are used up and more tokens than the Sale ever held were delivered
\* (the shortfall was minted).
C25_Witness ==
    /\ lockupTVL > 0 /\ lockupTVLReached /\ minterRole
    /\ tok[SALE] = 0
    /\ SumOver(tok, DOMAIN tok) > SaleTokens
    /\ \E u, w \in Users :
          /\ lockedBalanceOf[u] > 0 /\ tok[u] > 0
          /\ lockedBalanceOf[w] = 0 /\ tok[w] = purchaseOf[w] /\ tok[w] > 0

\* C26: in a vault-mode sale unlock() and claimBack() are mutually exclusive
\* per investor: an address that has received its locked tokens through a
\* successful unlock() cannot recover the payment for that purchase through
\* claimBack() (either overload) afterwards.
C26_UnlockExcludesClaimBack ==
    [][\A u \in Users :
          (~immediateTransfer /\ unlock(u)) =>
              /\ \A c \in Currencies : ~(CanClaimBack(u, c))'
              /\ \A c \in Currencies : ~(state = "Failed" /\ paidAmount[u][c] > 0)']_vars

\* C27: a deposit is returned to the investor at most once: once
\* rejectAndRefund has transferred the deposit back (status Rejected), no
\* refund() call transfers amount to the investor again, whatever funds the
\* escrow has received in the meantime.
C27_RefundedOnce ==
    [][\A s \in Callers :
          (status = "Rejected" /\ refundedAmount = amount) =>
              ~(/\ refund(s)
                /\ bal'[paymentToken][INVESTOR] = bal[paymentToken][INVESTOR] + amount)]_vars

\* C28: the Sale's computed status never regresses: totalPurchases never
\* decreases (claimBack does not lower it) and time only advances, so a sale
\* that is Successful stays Successful and a sale that is Failed stays Failed;
\* hence transferFunds and claimBack are never enabled in the same state, and
\* once one of them is enabled the other one is disabled from then on.
C28_StatusNeverRegresses ==
    /\ [][/\ totalPurchases' >= totalPurchases
          /\ now' >= now
          /\ state = "Successful" => state' = "Successful"
          /\ state = "Failed" => state' = "Failed"
          /\ (\E s \in Callers, c \in Currencies : ENABLED transferFunds(s, c))
                => (\A u \in Users, c \in Currencies :
                       ~CanClaimBack(u, c) /\ ~(CanClaimBack(u, c))')
          /\ (\E u \in Users, c \in Currencies : CanClaimBack(u, c))
                => (state' # "Successful"
                    /\ \A s \in Callers, c \in Currencies : ~ENABLED transferFunds(s, c))]_vars

\* C28 witness: a Failed sale in which an investor has claimed the payment
\* back while totalPurchases still counts the purchase.
C28_Witness ==
    /\ state = "Failed" /\ ~immediateTransfer
    /\ totalPurchases > 0
    /\ \E u \in Users :
          /\ hasParticipated[u] /\ purchaseOf[u] = 0
          /\ \A c \in Currencies : paidAmount[u][c] = 0
          /\ totalPurchases > SumOver(purchaseOf, Users)

\* C29: for a funded Active escrow at a time with adminDeadline <= now <
\* expirationTime the admin's approveAndExecute, partialApproveAndExecute and
\* rejectAndRefund and anyone's refund() are enabled together (the approvals
\* as far as the Sale accepts the purchase); as soon as one of them has taken
\* effect the escrow is no longer Active and from then on each of the four
\* fails, so the deposit is never both forwarded to the Sale and refunded.
C29_OneDecision ==
    /\ [](\A s \in Callers :
            (status = "Active" /\ amount > 0 /\ adminDeadline <= now
                /\ now < expirationTime) =>
               /\ ENABLED refund(s)
               /\ ENABLED rejectAndRefund(ADMIN, "kyc")
               /\ CanExecutePurchase(amount) => ENABLED approveAndExecute(ADMIN)
               /\ \A n \in 1..(amount - 1) :
                     CanExecutePurchase(n) => ENABLED partialApproveAndExecute(ADMIN, n))
    /\ [][(\/ \E s \in Callers : approveAndExecute(s) \/ refund(s)
                                    \/ rejectAndRefund(s, "kyc")
           \/ \E s \in Callers, n \in 0..MaxPayment : partialApproveAndExecute(s, n))
             => status' # "Active"]_vars
    /\ [][(status # "Active") => (status' # "Active")]_vars
    /\ [](status # "Active" =>
            \A s \in Callers :
               /\ ~ENABLED approveAndExecute(s)
               /\ \A n \in 0..MaxPayment : ~ENABLED partialApproveAndExecute(s, n)
               /\ ~ENABLED rejectAndRefund(s, "kyc")
               /\ ~ENABLED refund(s))
    /\ [](status = "Executed" => approvedAmount + refundedAmount = amount)

\* C30: createDeal is all-or-nothing with respect to its error outcome: when
\* it has thrown, neither the deal row nor any related row (key terms, FAQs,
\* documents, required documents, media) is persisted, no row is left in an
\* open transaction, and the pooled client it acquired has been released
\* exactly once.
C30_AllOrNothing ==
    pc = "thrown" =>
        /\ tables = {}
        /\ client.rows = {} /\ client.transaction = "none"
        /\ client.acquired => client.released = 1

====
